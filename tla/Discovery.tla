----------------------------- MODULE Discovery ------------------------------
(***************************************************************************)
(* From a product to the queues of videos its source slots try: the        *)
(* searches, the details, the ranking with its exclusions, the question    *)
(* which product is meant, the curation by a model, and the queues.        *)
(*                                                                         *)
(* The ranking is stored with the candidates when they are discovered; an  *)
(* answer to the question changes the product and with it the ranking.     *)
(* A model may curate what it was told to leave out, or was never shown.   *)
(* Scores are left out: the videos of one kind may come in any order.      *)
(* Operators named _Slip: see module Runtime.                              *)
(***************************************************************************)
EXTENDS Integers, Sequences, SequencesExt, Selection

CONSTANTS
    Videos,
    Products,     \* the product asked for, and those a question may offer
    Asked,
    Irrelevant,   \* the videos whose text does not match each product
    Unfit,        \* too short, live, or not public
    Alike,        \* pairs of videos of one channel with nearly one title
    Answers,      \* what a search may return
    Searches,     \* queries of the research plan
    Cap,          \* max_results
    Slots         \* requested source count

DiscoveryAssumption ==
    /\ Asked \in Products
    /\ {Searches, Cap, Slots} \subseteq Nat \ {0}
    /\ Answers \subseteq Seq(Videos)

VARIABLES
    place,       \* the task that is next, or how the discovery ended
    searches,    \* searches made
    hits,        \* distinct videos found, in order
    candidates,  \* the videos whose details came back, in the order they did
    excluded,    \* those excluded when they were discovered
    product,     \* the product in force
    curation,    \* ordered_video_ids of the curation
    cached,      \* the videos whose captions were cached when the queues were made
    queues       \* source_queues, one for each slot

vars == <<place, searches, hits, candidates, excluded, product, curation, cached, queues>>

Init ==
    /\ place = "search" /\ searches = 0 /\ hits = <<>>
    /\ candidates = <<>> /\ excluded = {}
    /\ product = Asked
    /\ curation = <<>> /\ cached = {} /\ queues = <<>>

Orders(S) == UNION {SetToSeqs(T) : T \in SUBSET S}

(* YouTubeClient.search: one request for each query, until Cap are found.  *)
Search ==
    /\ place = "search" /\ searches < Searches /\ Len(hits) < Cap
    /\ searches' = searches + 1
    /\ \E answer \in Answers :
           LET all == hits \o Select(answer, Videos \ ToSet(hits))
           IN hits' = SubSeq(all, 1, IF Len(all) < Cap THEN Len(all) ELSE Cap)
    /\ UNCHANGED <<place, candidates, excluded, product, curation, cached, queues>>

(* rank_candidates goes through the videos in order: one that is like a    *)
(* video it has kept is a near duplicate.                                  *)
Refuses(p, kept, v) == v \in Irrelevant[p] \cup Unfit \/ \E w \in kept : {v, w} \in Alike
Kept(p) ==
    LET Upto[n \in 0..Len(candidates)] ==
            IF n = 0 THEN {}
            ELSE IF Refuses(p, Upto[n - 1], candidates[n])
                 THEN Upto[n - 1] ELSE Upto[n - 1] \cup {candidates[n]}
    IN Upto[Len(candidates)]
Excluded(p) == ToSet(candidates) \ Kept(p)

(* _discover_candidates: details come back for some of the hits.           *)
Discover ==
    /\ place = "search" /\ (searches = Searches \/ Len(hits) >= Cap)
    /\ IF hits = <<>>
       THEN place' = "no candidates" /\ UNCHANGED candidates
       ELSE place' = "rank" /\ candidates' \in Orders(ToSet(hits))
    /\ UNCHANGED <<searches, hits, excluded, product, curation, cached, queues>>

Rank ==
    /\ place = "rank" /\ place' = "resolve"
    /\ excluded' = Excluded(product)
    /\ UNCHANGED <<searches, hits, candidates, product, curation, cached, queues>>

(* resolve_discovered_product: the titles name other products, or not; and *)
(* answer_product, when they do.                                           *)
Resolve ==
    /\ place = "resolve"
    /\ place' \in {"question", "curate"}
    /\ UNCHANGED <<searches, hits, candidates, excluded, product, curation, cached, queues>>

AnswerProduct ==
    /\ place = "question" /\ place' = "curate"
    /\ product' \in Products
    /\ UNCHANGED <<searches, hits, candidates, excluded, curation, cached, queues>>

(* _effective_discovery: the candidates, ranked again when the product was *)
(* clarified.                                                              *)
Effective_Slip == excluded
Effective == IF product = Asked THEN excluded ELSE Excluded(product)

(* The curator is not asked when every candidate is excluded.              *)
AllExcluded == candidates # <<>> /\ ToSet(candidates) = Effective

(* An unknown video stands for one that was never a candidate.             *)
Curate ==
    /\ place = "curate"
    /\ IF AllExcluded
       THEN place' = "no candidates" /\ UNCHANGED curation
       ELSE /\ place' = "queues"
            /\ curation' \in Orders(ToSet(candidates) \cup {"unknown"}) \ {<<>>}
    /\ UNCHANGED <<searches, hits, candidates, excluded, product, cached, queues>>

Allowed == Select(curation, ToSet(candidates) \ Effective)

Position(v, order) == CHOOSE i \in DOMAIN order : order[i] = v

(* balance_curated_order: for each slot the best that remains, cached ones *)
(* before others; the reserves stay in the order of the curation.          *)
Balanced(allowed, hit) ==
    {order \in SetToSeqs(ToSet(allowed)) :
        \A i, j \in DOMAIN order : i < j =>
            IF i <= Slots
            THEN order[j] \in hit => order[i] \in hit
            ELSE Position(order[i], allowed) < Position(order[j], allowed)}

(* source_slot_queues: a primary, and every Slots-th of the reserves.      *)
SlotQueue(order, slot) ==
    [k \in 1..((Len(order) + Slots - slot) \div Slots) |-> order[slot + (k - 1) * Slots]]

(* _curated_source_queues, which looks the captions up in between.         *)
BuildQueues ==
    /\ place = "queues" /\ place' = "fetch"
    /\ cached' \in SUBSET ToSet(Allowed)
    /\ \E order \in Balanced(Allowed, cached') :
           queues' = [slot \in 1..Slots |-> SlotQueue(order, slot)]
    /\ UNCHANGED <<searches, hits, candidates, excluded, product, curation>>

Next == Search \/ Discover \/ Rank \/ Resolve \/ AnswerProduct \/ Curate \/ BuildQueues

Spec == Init /\ [][Next]_vars

-----------------------------------------------------------------------------

Queued == UNION {ToSet(queues[slot]) : slot \in DOMAIN queues}
First == {Head(queues[slot]) : slot \in {s \in DOMAIN queues : queues[s] # <<>>}}

(* Two slots never try one video, nor two that are alike; together they    *)
(* have every curated candidate that suits the product in force, whichever *)
(* product the candidates were ranked for, and no other video; no slot is  *)
(* left without a video while another has a reserve, and a video whose     *)
(* captions are cached is a reserve only when all slots begin with such a  *)
(* one (_effective_discovery, rank_candidates, balance_curated_order,      *)
(* source_slot_queues).                                                    *)
QueuesShareOut ==
    place = "fetch" =>
        /\ \A s, t \in DOMAIN queues : s # t => ToSet(queues[s]) \cap ToSet(queues[t]) = {}
        /\ \A v, w \in Queued : {v, w} \in Alike => v = w
        /\ \A v \in Queued : v \notin Irrelevant[product] \cup Unfit
        /\ \A v \in ToSet(candidates) \cap ToSet(curation) :
               v \in Queued \/ v \in Irrelevant[product] \cup Unfit
                 \/ \E w \in ToSet(candidates) : {v, w} \in Alike
        /\ \A s, t \in DOMAIN queues : Len(queues[s]) <= Len(queues[t]) + 1
        /\ cached \subseteq First \/ First \subseteq cached
=============================================================================
