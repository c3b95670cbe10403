------------------------------ MODULE Captions ------------------------------
(***************************************************************************)
(* Captions of the sources of an analysis: each source slot walks its      *)
(* queue of videos until one has a transcript.  The tool reads a shared    *)
(* cache before it fetches, a miss is answered from transcript nodes of    *)
(* earlier runs, YouTube blocks routes, and the executor reads the cache a *)
(* second time to learn the age of what it was given.                      *)
(*                                                                         *)
(* A caption is the time it was fetched from YouTube, a cache entry or a   *)
(* node is a caption with the time it claims.  All requests are of one     *)
(* language and origin, which are part of the cache key.  Operators named  *)
(* _Slip: see module Runtime.                                              *)
(***************************************************************************)
EXTENDS Integers, Sequences, FiniteSets

CONSTANTS
    Slots,       \* source slots, of one or several runs
    Videos,
    QueueOf,     \* the videos of each slot, in the order they are tried
    Routes,      \* proxies to YouTube, or the direct route alone
    TTL,         \* CACHE_TTL_SECONDS
    Lookups,     \* the nodes bootstrap_caption looks at, its limit(8)
    MaxTries,    \* max_attempts of the tool
    MaxTime,     \* bound: the clock runs from 0 to MaxTime
    Faults       \* {"evict"} if Redis may lose entries, or {}

CaptionAssumption ==
    /\ QueueOf \in [Slots -> Seq(Videos)]
    /\ TTL \in Nat \ {0}
    /\ MaxTries \in Nat \ {0}
    /\ IsFiniteSet(Slots) /\ Lookups \in Nat
    /\ Cardinality(Slots) =< Lookups  \* bound: the limit leaves no node out
    /\ MaxTime \in Nat
    /\ Faults \subseteq {"evict"}

VARIABLES
    now,        \* the clock
    cache,      \* Redis: the entry of each video, or NoEntry
    nodes,      \* the transcript node each slot created, or NoNode
    blocked,    \* routes whose circuit breaker is open
    place,      \* where the code of each slot is
    pos,        \* the position in its queue
    tries,      \* tries of the present fetch
    refused,    \* the slot's local `blocked'
    held,       \* the transcript the slot has in hand
    offered     \* history: videos that had a caption ever since the slot began

vars == <<now, cache, nodes, blocked, place, pos, tries, refused, held, offered>>

Times == 0..MaxTime
NoEntry == [fetched |-> -1, claimed |-> -1]
NoNode == [video |-> "none", fetched |-> -1, claimed |-> -1, created |-> -1]
Entries == [fetched : Times, claimed : Times] \cup {NoEntry}
Places == {"idle", "next", "tool", "fetch", "store", "stamp", "create",
           "found", "unavailable", "blocked", "failed"}

TypeOK ==
    /\ now \in Times
    /\ cache \in [Videos -> Entries]
    /\ nodes \in [Slots -> [video : Videos, fetched : Times, claimed : Times, created : Times]
                           \cup {NoNode}]
    /\ blocked \subseteq Routes
    /\ place \in [Slots -> Places]
    /\ \A s \in Slots : pos[s] \in 1..(Len(QueueOf[s]) + 1)
    /\ tries \in [Slots -> 0..MaxTries]
    /\ refused \in [Slots -> BOOLEAN]
    /\ held \in [Slots -> Entries]
    /\ offered \in [Slots -> SUBSET Videos]

Init ==
    /\ now = 0
    /\ cache = [v \in Videos |-> NoEntry]
    /\ nodes = [s \in Slots |-> NoNode]
    /\ blocked = {}
    /\ place = [s \in Slots |-> "idle"]
    /\ pos = [s \in Slots |-> 1]
    /\ tries = [s \in Slots |-> 0]
    /\ refused = [s \in Slots |-> FALSE]
    /\ held = [s \in Slots |-> NoEntry]
    /\ offered = [s \in Slots |-> {}]

(* _remaining is positive. *)
Fresh(e) == e # NoEntry /\ now < e.claimed + TTL

(* get_cached_caption. *)
Cached(v) == Fresh(cache[v])

(* bootstrap_caption: the newest active node whose claimed age allows it; *)
(* each slot makes one node, so Lookups holds them all.                   *)
AsEntry(n) == [fetched |-> n.fetched, claimed |-> n.claimed]
Reusable(v) == {n \in {nodes[s] : s \in Slots} :
                   n.video = v /\ n.created >= now - TTL /\ Fresh(AsEntry(n))}
Newest(N) == {n \in N : \A other \in N : other.created =< n.created}

(* available_caption, and what it leaves in the cache. *)
Available(v) == Cached(v) \/ Reusable(v) # {}
Entry(v) == IF Cached(v) THEN {cache[v]} ELSE {AsEntry(n) : n \in Newest(Reusable(v))}

Video(s) == QueueOf[s][pos[s]]
Go(s, p) == place' = [place EXCEPT ![s] = p]
shared == <<now, blocked, nodes>>
locals == <<tries, refused, held>>

(* The loop of _fetch_transcript goes on to the next video. *)
Skip(s) == Go(s, "next") /\ pos' = [pos EXCEPT ![s] = @ + 1]

Begin(s) ==
    /\ place[s] = "idle"
    /\ Go(s, "next")
    /\ offered' = [offered EXCEPT ![s] = {v \in Videos : Available(v)}]
    /\ UNCHANGED <<shared, cache, pos, locals>>

(* _fetch_transcript: once a route was refused only videos with a caption  *)
(* at hand are tried; the check itself fills the cache.                    *)
Visit_Slip(s) ==
    /\ place[s] = "next" /\ pos[s] =< Len(QueueOf[s])
    /\ \/ refused[s] /\ Skip(s)
       \/ ~refused[s] /\ Go(s, "tool") /\ UNCHANGED pos
    /\ UNCHANGED <<shared, cache, locals, offered>>
Visit(s) ==
    /\ place[s] = "next" /\ pos[s] =< Len(QueueOf[s])
    /\ \/ ~refused[s] /\ Go(s, "tool") /\ UNCHANGED <<pos, cache>>
       \/ refused[s] /\ ~Available(Video(s)) /\ Skip(s) /\ UNCHANGED cache
       \/ /\ refused[s] /\ Available(Video(s))
          /\ \E e \in Entry(Video(s)) : cache' = [cache EXCEPT ![Video(s)] = e]
          /\ Go(s, "tool")
          /\ UNCHANGED pos
    /\ UNCHANGED <<shared, locals, offered>>

GiveUp(s) ==
    /\ place[s] = "next" /\ pos[s] > Len(QueueOf[s])
    /\ Go(s, IF refused[s] THEN "blocked" ELSE "unavailable")
    /\ UNCHANGED <<shared, cache, pos, locals, offered>>

(* _dispatch of youtube.transcript reads the cache first. *)
ReadCache(s) ==
    /\ place[s] = "tool"
    /\ \/ /\ Available(Video(s))
          /\ \E e \in Entry(Video(s)) :
                 /\ cache' = [cache EXCEPT ![Video(s)] = e]
                 /\ held' = [held EXCEPT ![s] = e]
          /\ Go(s, "stamp")
          /\ UNCHANGED tries
       \/ /\ ~Available(Video(s))
          /\ tries' = [tries EXCEPT ![s] = 1]
          /\ Go(s, "fetch")
          /\ UNCHANGED <<cache, held>>
    /\ UNCHANGED <<shared, pos, refused, offered>>

(* TranscriptProvider.fetch rotates over the open routes: those that fail  *)
(* are blocked, and the first that answers decides.                        *)
Open == Routes \ blocked
Fetched(s) ==
    /\ place[s] = "fetch"
    /\ \E bad \in SUBSET Open :
           /\ bad # Open
           /\ blocked' = blocked \cup bad
    /\ held' = [held EXCEPT ![s] = [fetched |-> now, claimed |-> now]]
    /\ tries' = [tries EXCEPT ![s] = 0]
    /\ Go(s, "store")
    /\ UNCHANGED <<now, nodes, cache, pos, refused, offered>>

(* transcript_unavailable, transcript_fetch_failed and transcript_empty are *)
(* final for the video; a transcript_timeout is once it was retried.       *)
NoTranscript(s) ==
    /\ place[s] = "fetch"
    /\ Open # {}
    /\ \/ Skip(s) /\ tries' = [tries EXCEPT ![s] = 0]
       \/ tries[s] < MaxTries /\ tries' = [tries EXCEPT ![s] = @ + 1] /\ UNCHANGED <<place, pos>>
    /\ UNCHANGED <<shared, cache, refused, held, offered>>

(* Every route that was still open is refused: transcript_access_blocked. *)
AccessBlocked(s) ==
    /\ place[s] = "fetch"
    /\ blocked' = Routes
    /\ refused' = [refused EXCEPT ![s] = TRUE]
    /\ tries' = [tries EXCEPT ![s] = 0]
    /\ Skip(s)
    /\ UNCHANGED <<now, nodes, cache, held, offered>>

(* Any other error of the tool fails the slot. *)
ToolFails(s) ==
    /\ place[s] \in {"tool", "fetch"}
    /\ tries' = [tries EXCEPT ![s] = 0]
    /\ Go(s, "failed")
    /\ UNCHANGED <<shared, cache, pos, refused, held, offered>>

(* store_caption; a Redis error is swallowed. *)
Store(s) ==
    /\ place[s] = "store"
    /\ \/ cache' = [cache EXCEPT ![Video(s)] = held[s]]
       \/ "evict" \in Faults /\ UNCHANGED cache
    /\ Go(s, "stamp")
    /\ UNCHANGED <<shared, pos, locals, offered>>

(* The second available_caption of _fetch_transcript, or of                *)
(* execute_research: a miss stamps the transcript with the present time.   *)
Stamp(s) ==
    /\ place[s] = "stamp"
    /\ \/ /\ Available(Video(s))
          /\ \E e \in Entry(Video(s)) :
                 /\ cache' = [cache EXCEPT ![Video(s)] = e]
                 /\ held' = [held EXCEPT ![s].claimed = e.claimed]
       \/ /\ ~Available(Video(s))
          /\ held' = [held EXCEPT ![s].claimed = now]
          /\ UNCHANGED cache
    /\ Go(s, "create")
    /\ UNCHANGED <<shared, pos, tries, refused, offered>>

(* graph.create_nodes, and the end of the slot. *)
Create(s) ==
    /\ place[s] = "create"
    /\ nodes' = [nodes EXCEPT ![s] = [video |-> Video(s), fetched |-> held[s].fetched,
                                      claimed |-> held[s].claimed, created |-> now]]
    /\ held' = [held EXCEPT ![s] = NoEntry]
    /\ Go(s, "found")
    /\ UNCHANGED <<now, blocked, cache, pos, tries, refused, offered>>

StillOffered == offered' = [s \in Slots |-> {v \in offered[s] : Available(v)'}]

(* CIRCUIT_BREAKER_TTL_SECONDS pass: far less than a tick of the clock. *)
RouteReopens(r) ==
    /\ r \in blocked
    /\ blocked' = blocked \ {r}
    /\ UNCHANGED <<now, cache, nodes, place, pos, locals, offered>>

(* A tick is a large part of the time to live: none falls between the      *)
(* fetch of a caption and the creation of its node.                        *)
JustFetched(s) == place[s] \in {"store", "stamp", "create"} /\ held[s].fetched = now

Tick ==
    /\ now < MaxTime
    /\ \A s \in Slots : ~JustFetched(s)
    /\ now' = now + 1
    /\ UNCHANGED <<cache, nodes, blocked, place, pos, locals>>
    /\ StillOffered

Evict(v) ==
    /\ "evict" \in Faults
    /\ cache[v] # NoEntry
    /\ cache' = [cache EXCEPT ![v] = NoEntry]
    /\ UNCHANGED <<now, nodes, blocked, place, pos, locals>>
    /\ StillOffered

SlotStep(s) ==
    \/ Begin(s) \/ Visit(s) \/ GiveUp(s) \/ ReadCache(s) \/ Fetched(s) \/ NoTranscript(s)
    \/ AccessBlocked(s) \/ ToolFails(s) \/ Store(s) \/ Stamp(s) \/ Create(s)

Next ==
    \/ \E s \in Slots : SlotStep(s)
    \/ \E r \in Routes : RouteReopens(r)
    \/ \E v \in Videos : Evict(v)
    \/ Tick

Spec == Init /\ [][Next]_vars

-----------------------------------------------------------------------------

Elements(q) == {q[i] : i \in DOMAIN q}

(* A slot ends without a transcript only when no video of its queue had a  *)
(* caption at hand all the while: blocked routes, of this slot or of       *)
(* others, never make it pass over one (_fetch_transcript).                *)
CoverageKept ==
    \A s \in Slots : place[s] \in {"unavailable", "blocked"} =>
        offered[s] \cap Elements(QueueOf[s]) = {}

(* The age of a caption survives the cache: a node that was made from an   *)
(* earlier caption claims the time that caption was fetched, so that       *)
(* nothing older than the time to live is ever used again                  *)
(* (available_caption, _fetch_transcript).                                 *)
AgeKept == \A s \in Slots : nodes[s].claimed = nodes[s].fetched
=============================================================================
