------------------------------ MODULE Catalog -------------------------------
(***************************************************************************)
(* The catalog of models and of the endpoints that serve each: refreshes   *)
(* that overlap, fail half way or die, the rows that are current and when  *)
(* they are stale, and the policies that are validated against them.       *)
(*                                                                         *)
(* A refresh is a row that is begun, filled with what the provider listed  *)
(* and dated with the moment the list was received; the rows of earlier    *)
(* refreshes stay.  The list of models is the set of those that produce    *)
(* text; the list of a model, the set of providers that serve it as the    *)
(* policy demands.                                                         *)
(* Operators named _Slip: see module Runtime.                              *)
(***************************************************************************)
EXTENDS Integers, Sequences, FiniteSets

CONSTANTS
    Refreshers,    \* the scheduled task and the administrative jobs
    Scheduled,     \* the scheduled ones
    PlansOf,       \* the targets each may refresh, one after the other
    Models,        \* models of the policy; "models" is the list of models itself
    Providers,
    StaleAfter,    \* openrouter_catalog_stale_minutes
    Every,         \* catalog_refresh_minutes
    MaxRefreshes,  \* bound: refreshes begun
    MaxTime        \* bound: the clock stops here

CatalogAssumption ==
    /\ Scheduled \subseteq Refreshers
    /\ "models" \notin Models
    /\ \A r \in Refreshers : PlansOf[r] \subseteq Seq({"models"} \cup Models)
    /\ {StaleAfter, Every, MaxRefreshes, MaxTime} \subseteq Nat

VARIABLES
    now,
    refreshes,  \* OpenRouterCatalogRefresh, in the order they began, with their rows
    refresher,  \* each refresher: the targets it has left, and what it has in hand
    lock,       \* reviewlens:scheduled-catalog-refresh
    policy,     \* a policy: its status, and whether staleness was acknowledged
    validation  \* the validation under way: the refresh whose list it uses for
                \* each target, the targets it has judged, and, for what is said
                \* of it only, the time it began and the refreshes over by then

vars == <<now, refreshes, refresher, lock, policy, validation>>
publication == <<policy, validation>>

Targets == {"models"} \cup Models
ListsOf(target) == SUBSET (IF target = "models" THEN Models ELSE Providers)
Idle == [left |-> <<>>, refresh |-> 0, got |-> {}, since |-> 0]
NoValidation ==
    [open |-> FALSE, acknowledged |-> FALSE, used |-> [t \in Targets |-> 0],
     judged |-> {}, began |-> 0, known |-> {}]

Init ==
    /\ now = 0
    /\ refreshes = <<>>
    /\ refresher = [r \in Refreshers |-> Idle]
    /\ lock = {}
    /\ policy = [status |-> "draft", acknowledged |-> FALSE]
    /\ validation = NoValidation

Of(target) == {k \in DOMAIN refreshes : refreshes[k].target = target}
Newest(K, at(_)) == CHOOSE k \in K : \A j \in K : at(j) < at(k) \/ (at(j) = at(k) /\ j <= k)

(* refresh_openrouter_catalogs_task: not within Every of the last refresh  *)
(* of the models, whatever became of it, and under the lock.               *)
Due ==
    Of("models") # {} =>
        LET last == refreshes[Newest(Of("models"), LAMBDA k : k)]
        IN now - (IF last.status = "running" THEN last.started ELSE last.completed) >= Every
BeginScheduled(r) ==
    /\ refresher[r] = Idle
    /\ Due /\ lock = {}
    /\ lock' = {r}
    /\ \E plan \in PlansOf[r] : refresher' = [refresher EXCEPT ![r].left = plan]
    /\ UNCHANGED <<now, refreshes, publication>>

(* run_job: the endpoints of one model, or everything. *)
BeginJob(r) ==
    /\ refresher[r] = Idle
    /\ \E plan \in PlansOf[r] : refresher' = [refresher EXCEPT ![r].left = plan]
    /\ UNCHANGED <<now, refreshes, lock, publication>>

BeginRefresh(r) ==
    /\ refresher[r].left # <<>> /\ refresher[r].refresh = 0
    /\ Len(refreshes) < MaxRefreshes
    /\ refreshes' = Append(refreshes,
           [target |-> Head(refresher[r].left), status |-> "running",
            started |-> now, completed |-> 0, rows |-> {}, listed |-> 0])
    /\ refresher' = [refresher EXCEPT ![r].refresh = Len(refreshes')]
    /\ UNCHANGED <<now, lock, publication>>

Listing(r) == refresher[r].refresh # 0 /\ refresher[r].since = 0

(* The provider's answer, at the time now + 1: 0 says there is none yet.   *)
ReceiveList(r) ==
    /\ Listing(r)
    /\ \E list \in ListsOf(refreshes[refresher[r].refresh].target) :
           refresher' = [refresher EXCEPT ![r].got = list, ![r].since = now + 1]
    /\ UNCHANGED <<now, refreshes, lock, publication>>

Release(r) == lock' = lock \ {r}
Leave(r, left) ==
    /\ refresher' = [refresher EXCEPT ![r] = [Idle EXCEPT !.left = left]]
    /\ IF left = <<>> THEN Release(r) ELSE UNCHANGED lock

(* The rows are stored with the time the list was received; if Redis then  *)
(* does not take the copy, the targets that are left are given up.         *)
Completed_Slip(r) == now
Completed(r) == refresher[r].since - 1
Store(r) ==
    /\ refresher[r].since # 0
    /\ refreshes' = [refreshes EXCEPT ![refresher[r].refresh] =
           [@ EXCEPT !.status = "succeeded", !.completed = Completed(r),
                     !.rows = refresher[r].got, !.listed = refresher[r].since - 1]]
    /\ \E left \in {Tail(refresher[r].left), <<>>} : Leave(r, left)
    /\ UNCHANGED <<now, publication>>

(* _fail_refresh; the exception ends the targets that are left, too.       *)
FailRefresh(r) ==
    /\ refresher[r].refresh # 0
    /\ refreshes' = [refreshes EXCEPT ![refresher[r].refresh] =
           [@ EXCEPT !.status = "failed", !.completed = now]]
    /\ Leave(r, <<>>)
    /\ UNCHANGED <<now, publication>>

(* A process dies: its refresh stays "running", the lock until it expires. *)
Die(r) ==
    /\ refresher[r] # Idle
    /\ refresher' = [refresher EXCEPT ![r] = Idle]
    /\ UNCHANGED <<now, refreshes, lock, publication>>

LockExpires ==
    /\ \A r \in lock : refresher[r] = Idle
    /\ lock # {} /\ lock' = {}
    /\ UNCHANGED <<now, refreshes, refresher, publication>>

Tick ==
    /\ now < MaxTime /\ now' = now + 1
    /\ UNCHANGED <<refreshes, refresher, lock, publication>>

-----------------------------------------------------------------------------

(* _latest_refresh, _status_metadata: too old, or the refresh begun last   *)
(* has failed since.                                                       *)
Succeeded(target) == {k \in Of(target) : refreshes[k].status = "succeeded"}
Latest(target) == Newest(Succeeded(target), LAMBDA k : refreshes[k].completed)
Missing(target) == Succeeded(target) = {}
Stale(target, used) ==
    LET attempt == refreshes[Newest(Of(target), LAMBDA k : k)] IN
    \/ now - used.completed > StaleAfter
    \/ attempt.status = "failed" /\ attempt.started >= used.started

(* validate_model_policy reads in statements that each see what has been   *)
(* committed by then, and locks the policy only: first the list of models, *)
(* then the endpoints of each model; of each the refresh that counts, and  *)
(* later whether it is stale.                                              *)
Used(target) == refreshes[validation.used[target]]
Found == {t \in Targets : validation.used[t] # 0}
Over == {k \in DOMAIN refreshes : refreshes[k].status # "running"}

BeginValidation(acknowledged) ==
    /\ policy.status = "draft" /\ ~validation.open
    /\ ~Missing("models")
    /\ validation' =
           [NoValidation EXCEPT !.open = TRUE, !.acknowledged = acknowledged,
                !.used["models"] = Latest("models"), !.began = now, !.known = Over]
    /\ UNCHANGED <<now, refreshes, refresher, lock, policy>>

FindEndpoints(m) ==
    /\ validation.open /\ Found = validation.judged /\ m \notin Found
    /\ m \in Used("models").rows /\ ~Missing(m)
    /\ validation' = [validation EXCEPT !.used[m] = Latest(m)]
    /\ UNCHANGED <<now, refreshes, refresher, lock, policy>>

Judge(t) ==
    /\ validation.open /\ t \in Found \ validation.judged
    /\ validation.acknowledged \/ ~Stale(t, Used(t))
    /\ t \in Models => Used(t).rows # {}
    /\ validation' = [validation EXCEPT !.judged = @ \cup {t}]
    /\ UNCHANGED <<now, refreshes, refresher, lock, policy>>

(* The transaction commits long after it has read.                         *)
PublishPolicy ==
    /\ validation.open /\ validation.judged = Targets
    /\ policy' = [status |-> "published", acknowledged |-> validation.acknowledged]
    /\ validation' = NoValidation
    /\ UNCHANGED <<now, refreshes, refresher, lock>>

(* A check fails, or the process dies: the transaction is rolled back.     *)
Refuse ==
    /\ validation.open /\ validation' = NoValidation
    /\ UNCHANGED <<now, refreshes, refresher, lock, policy>>

Next ==
    \/ \E r \in Refreshers :
           \/ IF r \in Scheduled THEN BeginScheduled(r) ELSE BeginJob(r)
           \/ BeginRefresh(r) \/ ReceiveList(r) \/ Store(r) \/ FailRefresh(r) \/ Die(r)
    \/ LockExpires \/ Tick
    \/ \E acknowledged \in BOOLEAN : BeginValidation(acknowledged)
    \/ \E m \in Models : FindEndpoints(m)
    \/ \E t \in Targets : Judge(t)
    \/ PublishPolicy \/ Refuse

Spec == Init /\ [][Next]_vars

-----------------------------------------------------------------------------

(* While a policy is validated list by list, refreshes go on.  Of what was *)
(* over when the validation began, the policy that is published has missed *)
(* nothing: no list it uses had been replaced by a newer one, however the  *)
(* refreshes that fetched them overlapped; and, unless staleness was       *)
(* acknowledged, its lists were no older than StaleAfter then, and no      *)
(* failure after them went without another attempt                         *)
(* (refresh_model_catalog, refresh_model_endpoints, validate_model_policy, *)
(* publish_model_policy).                                                  *)
ValidatedByNewest ==
    [][policy'.status # policy.status =>
        \A t \in Targets :
            /\ \A k \in Succeeded(t) \cap validation.known : refreshes[k].listed <= Used(t).listed
            /\ policy'.acknowledged \/
                 /\ validation.began - Used(t).listed <= StaleAfter
                 /\ \A k \in Of(t) \cap validation.known :
                        refreshes[k].status = "failed" /\ refreshes[k].started >= Used(t).started
                            => \E j \in Of(t) : j > k]_vars
=============================================================================
