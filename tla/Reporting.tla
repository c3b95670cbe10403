----------------------------- MODULE Reporting -----------------------------
(***************************************************************************)
(* From analysed reviews to the published report: each review keeps the    *)
(* claims whose quotations its transcript contains, the synthesis drafts   *)
(* findings that cite them, an audit refuses claims and findings, one      *)
(* correction and one second audit may follow, and a gate publishes.       *)
(*                                                                         *)
(* Every task reads the stored outputs of the earlier ones when it runs:   *)
(* an audit reads the reviews before the model answers and the draft       *)
(* after.  A review that failed may be retried by an administrator at any  *)
(* time.  What a model answers is any answer its schema admits; the        *)
(* current contracts of the registry are modelled.                         *)
(* Operators named _Slip: see module Runtime.                              *)
(***************************************************************************)
EXTENDS Integers, Sequences, FiniteSets, Selection

CONSTANTS
    ClaimsOf,    \* the claims a model proposes for each source, in order
    Central,     \* the claims about the purchase itself
    Findings,    \* findings a synthesis may state
    Cites,       \* the claims whose quotations a finding cites
    Worded,      \* findings whose numbers and names their quotations contain
    LateRetry    \* bound: whether a review is retried after the synthesis began

Sources == DOMAIN ClaimsOf
Claims == UNION {{ClaimsOf[s][k] : k \in DOMAIN ClaimsOf[s]} : s \in Sources}

\* A claim is of one source, and proposed once.
ReportingAssumption ==
    /\ ClaimsOf \in Seq(Seq(Claims))
    /\ \A s, t \in Sources : \A k \in DOMAIN ClaimsOf[s], l \in DOMAIN ClaimsOf[t] :
           ClaimsOf[s][k] = ClaimsOf[t][l] => s = t /\ k = l
    /\ Central \subseteq Claims
    /\ Cites \in [Findings -> SUBSET Claims \ {{}}]
    /\ Worded \subseteq Findings
    /\ LateRetry \in BOOLEAN

VARIABLES
    review,     \* how analyze_review of each source ended, if it did
    analysis,   \* the claims of its output
    stage,      \* the task of the chain that runs next
    prompt,     \* the reviews an audit in progress has sent to the model
    draft,      \* output of build_consensus
    audit,      \* output of audit_report
    corrected,  \* output of correct_consensus
    reaudit,    \* output of reaudit_report
    report      \* the published report

vars == <<review, analysis, stage, prompt, draft, audit, corrected, reaudit, report>>

NoDraft == [findings |-> {}, reviews |-> <<>>, omitted |-> FALSE]
\* removed: findings an issue names; refused: claims the model refused (a history).
NoAudit ==
    [verdict |-> "none", safe |-> {}, reviews |-> {}, removed |-> {}, refused |-> {},
     again |-> FALSE, terminal |-> FALSE]
NoReport == [status |-> "none", findings |-> {}, reviews |-> {}]

Init ==
    /\ review = [s \in Sources |-> "pending"]
    /\ analysis = [s \in Sources |-> <<>>]
    /\ stage = "reviews"
    /\ prompt = <<>>
    /\ draft = NoDraft /\ corrected = NoDraft
    /\ audit = NoAudit /\ reaudit = NoAudit
    /\ report = NoReport

chain == <<stage, prompt, draft, audit, corrected, reaudit, report>>

(* _postprocess_review keeps the claims with a quotation the transcript    *)
(* contains; a review without a central claim among them is set aside.     *)
Analyze(s) ==
    /\ review[s] = "pending"
    /\ \/ \E quoted \in SUBSET Claims :
              LET kept == Select(ClaimsOf[s], quoted)
                  sound == \E k \in DOMAIN kept : kept[k] \in Central
              IN /\ review' = [review EXCEPT ![s] = IF sound THEN "analysed" ELSE "skipped"]
                 /\ analysis' = [analysis EXCEPT ![s] = IF sound THEN kept ELSE <<>>]
       \/ review' = [review EXCEPT ![s] = "failed"] /\ UNCHANGED analysis
    /\ UNCHANGED chain

(* retry_task of a failed review. *)
RetryReview(s) ==
    /\ review[s] = "failed"
    /\ LateRetry \/ stage = "reviews"
    /\ review' = [review EXCEPT ![s] = "pending"]
    /\ UNCHANGED <<analysis, chain>>

(* _outputs_with_prefix: the analyses stored by now, by task key. *)
Reviews ==
    LET by == Select([s \in Sources |-> s], {s \in Sources : review[s] = "analysed"})
    IN [i \in DOMAIN by |-> [source |-> by[i], claims |-> analysis[by[i]]]]
InReviews(rs) == UNION {{rs[i].claims[k] : k \in DOMAIN rs[i].claims} : i \in DOMAIN rs}
InSet(rs) == UNION {r.claims : r \in rs}

(* curate_knowledge waits for every review and needs one analysis. *)
Curate ==
    /\ stage = "reviews"
    /\ \A s \in Sources : review[s] # "pending"
    /\ Reviews # <<>>
    /\ stage' = "build"
    /\ UNCHANGED <<review, analysis, prompt, draft, audit, corrected, reaudit, report>>

(* compile_report: an assertion cites quotations of one source, each of    *)
(* them in the catalog of the reviews read now; one that cannot be         *)
(* rendered is omitted.                                                    *)
OneOwner(f) == \E i \in DOMAIN Reviews : Cites[f] \subseteq InReviews(<<Reviews[i]>>)
Drafts == [findings : SUBSET {f \in Findings : OneOwner(f)}, reviews : {Reviews}, omitted : BOOLEAN]

Build ==
    /\ stage = "build"
    /\ draft' \in Drafts
    /\ stage' = "audit"
    /\ UNCHANGED <<review, analysis, prompt, audit, corrected, reaudit, report>>

Passed(a) == a.verdict \in {"pass", "pass_with_warnings"}
Subject == IF stage = "audit" THEN draft ELSE corrected
Deliver(a) ==
    /\ prompt' = <<>>
    /\ IF stage = "audit"
       THEN audit' = a /\ stage' = "correct" /\ UNCHANGED reaudit
       ELSE reaudit' = a /\ stage' = "publish" /\ UNCHANGED audit
    /\ UNCHANGED <<review, analysis, draft, corrected, report>>

(* An audit is due whose answer is not known already. *)
Auditing == stage = "audit" \/ (stage = "reaudit" /\ ~audit.terminal /\ ~Passed(audit))

(* The audits that need no model: a second audit after a first one that    *)
(* passed or cannot be repaired, and a draft without findings.             *)
AuditSettled ==
    /\ prompt = <<>>
    /\ \/ /\ stage = "reaudit" /\ (audit.terminal \/ Passed(audit))
          /\ Deliver(audit)
       \/ /\ Auditing
          /\ Subject.findings = {}
          /\ Deliver([NoAudit EXCEPT !.verdict = "fail",
                                     !.terminal = InReviews(Reviews) \cap Central = {}])

(* _agent_task_input: the audit sends the draft and the reviews read now. *)
AskAudit ==
    /\ Auditing
    /\ prompt = <<>> /\ Subject.findings # {}
    /\ prompt' = Reviews
    /\ UNCHANGED <<review, analysis, stage, draft, audit, corrected, reaudit, report>>

(* The call fails, or its answer does not validate: the task is retried    *)
(* and reads everything again.                                             *)
AuditFails ==
    /\ prompt # <<>>
    /\ prompt' = <<>>
    /\ UNCHANGED <<review, analysis, stage, draft, audit, corrected, reaudit, report>>

Positions(rs) == {p \in (1..Len(rs)) \X (1..8) : p[2] \in DOMAIN rs[p[1]].claims}

(* verified_sources: the refused positions leave, and with its last        *)
(* central claim the whole source.                                         *)
Verified(rs, refused) ==
    {r \in {[source |-> rs[i].source,
             claims |-> {rs[i].claims[k] : k \in {k \in DOMAIN rs[i].claims : <<i, k>> \notin refused}}] :
               i \in DOMAIN rs} :
        r.claims \cap Central # {}}

(* ground_report, supported: every citation belongs to a source that is    *)
(* kept, and the statement says no more than the quotations.               *)
Supported_Slip(f, kept) == f \in Worded
Supported(f, kept) == f \in Worded /\ \E r \in kept : Cites[f] \subseteq r.claims

(* The decisions of the audit: as_audit, verified_sources, ground_report,  *)
(* and the outcome of the task.  remarks: it also refuses prose, which     *)
(* grounding replaces.                                                     *)
Outcome(refused, denied, remarks) ==
    LET kept == Verified(Subject.reviews, refused)
        safe == {f \in Subject.findings : Supported(f, kept)} \ denied
        warned ==
            \/ remarks \/ Subject.omitted
            \/ safe # Subject.findings
            \/ InSet(kept) # InReviews(Subject.reviews)
    IN [verdict |-> IF safe = {} THEN "fail" ELSE IF warned THEN "pass_with_warnings" ELSE "pass",
        safe |-> safe,
        reviews |-> kept,
        removed |-> Subject.findings \ safe,
        refused |-> {prompt[p[1]].claims[p[2]] : p \in refused},
        again |-> kept = {} /\ stage = "audit",
        terminal |-> kept = {} /\ stage = "reaudit"]

Judge ==
    /\ prompt # <<>>
    /\ \E refused \in SUBSET Positions(prompt), denied \in SUBSET Subject.findings, remarks \in BOOLEAN :
           Deliver(Outcome(refused, denied, remarks))

Rewritten == {d \in Drafts : d.findings \cap audit.removed = {}}
Correct ==
    /\ stage = "correct"
    /\ \/ (Passed(audit) \/ audit.terminal \/ audit.again) /\ corrected' = draft
       \/ ~(Passed(audit) \/ audit.terminal \/ audit.again) /\ corrected' \in Rewritten
    /\ stage' = "reaudit"
    /\ UNCHANGED <<review, analysis, prompt, draft, audit, reaudit, report>>

(* _publish_report: the gate, which may also find a stored quotation       *)
(* damaged, and the status of the report: complete only when every source  *)
(* is in it and nothing left a warning; other warnings are possible.       *)
Statuses ==
    {"partial"} \cup
    IF Cardinality(reaudit.reviews) = Cardinality(Sources) /\ reaudit.verdict = "pass"
    THEN {"complete"} ELSE {}
Publish ==
    /\ stage = "publish"
    /\ \/ /\ Passed(reaudit) /\ reaudit.reviews # {}
          /\ \A r \in reaudit.reviews : r.claims \cap Central # {}
          /\ \E status \in Statuses :
                 report' = [status |-> status, findings |-> reaudit.safe, reviews |-> reaudit.reviews]
          /\ stage' = "published"
       \/ stage' = "rejected" /\ UNCHANGED report
    /\ UNCHANGED <<review, analysis, prompt, draft, audit, corrected, reaudit>>

Next ==
    \/ \E s \in Sources : Analyze(s) \/ RetryReview(s)
    \/ Curate \/ Build \/ AuditSettled \/ AskAudit \/ AuditFails \/ Judge \/ Correct \/ Publish

Spec == Init /\ [][Next]_vars

-----------------------------------------------------------------------------

Published == stage = "published"

(* Every published finding rests on quotations of one published source,    *)
(* all of whose claims its transcript contains; every published source     *)
(* still says something about the purchase; and a report called complete   *)
(* lost no source and no claim on the way (_postprocess_review,            *)
(* verified_sources, ground_report, _publish_report).                      *)
ReportGrounded ==
    Published =>
        /\ report.findings # {}
        /\ \A f \in report.findings :
               f \in Worded /\ \E r \in report.reviews : Cites[f] \subseteq r.claims
        /\ \A r \in report.reviews :
               r.claims \subseteq InReviews(Reviews) /\ r.claims \cap Central # {}
        /\ report.status = "complete" =>
               /\ {r.source : r \in report.reviews} = Sources
               /\ InSet(report.reviews) = InReviews(corrected.reviews)

(* What an audit refused is not published: no claim that the audit which   *)
(* let the report pass refused, and no finding that any audit refused,     *)
(* unless the first one refused every source and was repeated.             *)
RefusalsLast ==
    Published =>
        /\ InSet(report.reviews) \cap reaudit.refused = {}
        /\ report.findings \cap reaudit.removed = {}
        /\ audit.again \/ report.findings \cap audit.removed = {}
=============================================================================
