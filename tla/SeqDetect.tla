------------------------------ MODULE SeqDetect ------------------------------
(* Detection of sequential streams (src/src/ocf_seq_detect.c) and the sequential
   cutoff that uses it (src/src/ocf_seq_cutoff.c).  Every queue and every core has
   a few streams, each the end address, the length and the direction of a run of
   requests.  A request first continues a stream of its core; otherwise it
   continues or begins one of its queue, and a stream of a queue that has grown
   enough is moved to the core.  A queue serves all cores and its streams do not
   say whose they are, so one stream may join requests to different cores and be
   moved to either.

   The streams of a detector are the nodes of a tree ordered by (valid, direction,
   end).  A stream that is inserted with the key of another one is not a node: it
   is added to that node's list.  A search compares keys with the nodes only; if
   the node it stops at has a list, it returns the longest stream of the list,
   never the node itself, and does not look at its validity.

   Moving a stream to the core clears `valid' and leaves the stream where it is.
   In a list it can then still be found, continued and moved once more.  A node is
   out of order until it is inserted again, and so may be what is inserted
   meanwhile; a search may then miss what is there.  What it misses depends on the
   shape of the tree, so here it may miss anything.

   Several threads may submit to one queue; one action is one critical section of
   the detectors' locks.  All cores have the same thresholds of promotion.  *)
EXTENDS Integers, Sequences, FiniteSets, SequencesExt

CONSTANTS
    Threads,       \* threads that submit requests
    QueueOf,       \* req->io_queue of every thread
    Cores,         \* the cores
    Requests,      \* <<addr, len, rw, core>>: the requests
    NumStreams,    \* OCF_SEQ_DETECT_PERQUEUE_STREAMS and ..._PERCORE_STREAMS
    PromoteCount,  \* promotion_count
    PromoteBytes,  \* promotion_threshold
    Cutoff,        \* the threshold of sequential cutoff
    MaxCalls       \* bound of the model: requests of every thread

VARIABLES
    stream,        \* sd->streams of every detector: [last, bytes, count, rw, valid]
    lists,         \* sd->tree: every node followed by the streams in its list
    misplaced,     \* the nodes that are out of order in their detector's tree
    lru,           \* sd->lru, the next to be used again first
    consumers,     \* the cores with consumer_count > 0
    thr,           \* what every thread is doing
    asked,         \* ghost: <<rw, block>> that some request has covered
    cutOff,        \* ghost: <<rw, first, last>> of the runs that were cut off
    wrong,         \* ghost: a stream was moved that had not grown enough
    calls

vars == <<stream, lists, misplaced, lru, consumers, thr, asked, cutOff, wrong, calls>>

Queues == {QueueOf[t] : t \in Threads}
Detectors == Queues \cup Cores
Indices == 1 .. NumStreams
None == 0

Idle == [pc |-> "idle", req |-> <<0, 0, "rd", None>>, from |-> None, stale |-> FALSE]
Addr(t) == thr[t].req[1]
Size(t) == thr[t].req[2]
Rw(t) == thr[t].req[3]
CoreOf(t) == thr[t].req[4]

(* ocf_seq_detect_init: invalid streams with different keys. *)
Init ==
    /\ stream = [d \in Detectors |-> [i \in Indices |->
                    [last |-> i - 1, bytes |-> 0, count |-> 0, rw |-> "rd", valid |-> FALSE]]]
    /\ lists = [d \in Detectors |-> {<<i>> : i \in Indices}]
    /\ misplaced = [d \in Detectors |-> {}]
    /\ lru = [d \in Detectors |-> [i \in Indices |-> i]]
    /\ consumers \in {{}, Cores}
    /\ thr = [t \in Threads |-> Idle]
    /\ asked = {} /\ cutOff = {} /\ wrong = FALSE
    /\ calls = [t \in Threads |-> 0]

-----------------------------------------------------------------------------
(* The tree *)

(* ocf_seq_detect_stream_cmp *)
Key(s) == <<s.valid, s.rw, s.last>>

(* ocf_seq_detect_stream_list_find: the first of the longest in the list of a node. *)
Longest(d, g) ==
    LET bytes(k) == stream[d][g[k]].bytes
        best == {k \in 2 .. Len(g) : \A j \in 2 .. Len(g) : bytes(j) <= bytes(k)}
    IN  g[CHOOSE k \in best : \A j \in best : k <= j]

(* ocf_rb_tree_find: None may come out although there is a node with the key while
   something is out of order. *)
Find(d, addr, rw) ==
    LET nodes == {g \in lists[d] : Key(stream[d][Head(g)]) = <<TRUE, rw, addr>>}
    IN  {IF Len(g) = 1 THEN Head(g) ELSE Longest(d, g) : g \in nodes}
        \cup IF nodes = {} \/ misplaced[d] # {} THEN {None} ELSE {}

(* A detector's tree as a pair, [lists, misplaced]. *)
Tree(d) == [lists |-> lists[d], misplaced |-> misplaced[d]]

ListOf(d, i) == CHOOSE g \in lists[d] : i \in ToSet(g)

(* ocf_rb_tree_remove: the next of its list takes the place of a node, where it is
   in order if the node was and has the same key. *)
Removed(d, i) ==
    LET g == ListOf(d, i)
        next == g[2]
        others == misplaced[d] \ {i}
    IN  [lists |-> {SelectSeq(h, LAMBDA k : k # i) : h \in lists[d]} \ {<<>>},
         misplaced |->
            IF Head(g) # i \/ Len(g) = 1 THEN others
            ELSE IF i \notin misplaced[d] /\ Key(stream[d][next]) = Key(stream[d][i])
            THEN others ELSE others \cup {next}]

(* ocf_rb_tree_insert of stream i, now s, into a tree of d without it: into the list
   of a node with its key, or as a node, perhaps out of order if others are. *)
Insert(d, tree, i, s) ==
    LET same == {g \in tree.lists : Key(stream[d][Head(g)]) = Key(s)}
        node(m) == [lists |-> tree.lists \cup {<<i>>}, misplaced |-> m]
    IN  {[tree EXCEPT !.lists = (@ \ {g}) \cup {Append(g, i)}] : g \in same}
        \cup (IF same = {} THEN {node(tree.misplaced)} ELSE {})
        \cup (IF tree.misplaced # {} THEN {node(tree.misplaced \cup {i})} ELSE {})

(* Mutant of Grown: also a stream in a list stays where it is. *)
GrownInList(d, i, s) == {Tree(d)}

(* Stream i has become s: a node without a list stays where it is if
   ocf_rb_tree_can_update says so, which while something is out of order is no
   proof that it is in order; anything else is inserted again. *)
Grown(d, i, s) ==
    Insert(d, Removed(d, i), i, s)
    \cup IF misplaced[d] # {} /\ <<i>> \in lists[d]
         THEN {[Tree(d) EXCEPT !.misplaced = @ \cup {i}]} ELSE {}

Without(d, i) == SelectSeq(lru[d], LAMBDA k : k # i)
ToTail(d, i) == [lru EXCEPT ![d] = Append(Without(d, i), i)]

(* Somebody else's stream has changed since they left the lock. *)
MarkStale(others, d, i) ==
    [t \in Threads |->
        IF t \in others /\ thr[t].pc = "promote" /\ QueueOf[t] = d /\ thr[t].from = i
        THEN [thr[t] EXCEPT !.stale = TRUE] ELSE thr[t]]

-----------------------------------------------------------------------------
(* A request is submitted.  With sequential cutoff active it is checked first, under
   the policy full only while the cache is almost full: ocf_core_seq_cutoff_check
   looks in its queue, then in its core. *)
Submit(t) ==
    /\ thr[t].pc = "idle" /\ calls[t] < MaxCalls[t]
    /\ calls' = [calls EXCEPT ![t] = @ + 1]
    /\ \E r \in Requests, check \in BOOLEAN :
          /\ check => r[4] \in consumers
          /\ thr' = [thr EXCEPT ![t] = [Idle EXCEPT !.req = r,
                                        !.pc = IF check THEN "checkq" ELSE "gate"]]
          /\ asked' = asked \cup {<<r[3], b>> : b \in r[1] .. r[1] + r[2] - 1}
    /\ UNCHANGED <<stream, lists, misplaced, lru, consumers, cutOff, wrong>>

(* stream->bytes + req->bytes >= threshold *)
CutsOff(t, s) ==
    IF s.bytes + Size(t) >= Cutoff
    THEN {<<s.rw, s.last - s.bytes, s.last + Size(t) - 1>>} ELSE {}

CheckQueue(t) ==
    /\ thr[t].pc = "checkq"
    /\ \E i \in Find(QueueOf[t], Addr(t), Rw(t)) :
          /\ thr' = [thr EXCEPT ![t].pc = IF i = None THEN "checkc" ELSE "gate"]
          /\ cutOff' = cutOff \cup
                IF i = None THEN {} ELSE CutsOff(t, stream[QueueOf[t]][i])
    /\ UNCHANGED <<stream, lists, misplaced, lru, consumers, asked, wrong, calls>>

CheckCore(t) ==
    /\ thr[t].pc = "checkc"
    /\ \E i \in Find(CoreOf(t), Addr(t), Rw(t)) :
          cutOff' = cutOff \cup IF i = None THEN {} ELSE CutsOff(t, stream[CoreOf(t)][i])
    /\ thr' = [thr EXCEPT ![t].pc = "gate"]
    /\ UNCHANGED <<stream, lists, misplaced, lru, consumers, asked, wrong, calls>>

-----------------------------------------------------------------------------
(* ocf_core_seq_detect_update, of a request that the engine has accepted *)

(* Nobody is interested in streams: nothing to do. *)
Gate(t) ==
    /\ thr[t].pc = "gate"
    /\ thr' = [thr EXCEPT ![t] = IF CoreOf(t) \in consumers THEN [@ EXCEPT !.pc = "core"]
                                ELSE Idle]
    /\ UNCHANGED <<stream, lists, misplaced, lru, consumers, asked, cutOff, wrong, calls>>

(* ocf_engine_hndl_req fails, and the streams hear nothing of the request. *)
EngineFails(t) ==
    /\ thr[t].pc = "gate"
    /\ thr' = [thr EXCEPT ![t] = Idle]
    /\ UNCHANGED <<stream, lists, misplaced, lru, consumers, asked, cutOff, wrong, calls>>

(* ocf_seq_detect_update of a stream that was found. *)
Continued(s, len) == [s EXCEPT !.last = @ + len, !.bytes = @ + len, !.count = @ + 1]

(* The tree of detector d becomes `tree'. *)
Replant(d, tree) ==
    /\ lists' = [lists EXCEPT ![d] = tree.lists]
    /\ misplaced' = [misplaced EXCEPT ![d] = tree.misplaced]

(* The first critical section: the core's streams, without insertion. *)
UpdateCore(t) ==
    LET c == CoreOf(t) IN
    /\ thr[t].pc = "core"
    /\ \E i \in Find(c, Addr(t), Rw(t)) :
          IF i = None
          THEN /\ thr' = [thr EXCEPT ![t].pc = "queue"]
               /\ UNCHANGED <<stream, lists, misplaced, lru>>
          ELSE LET s == Continued(stream[c][i], Size(t))
               IN  /\ stream' = [stream EXCEPT ![c][i] = s]
                   /\ \E tree \in Grown(c, i, s) : Replant(c, tree)
                   /\ lru' = ToTail(c, i)
                   /\ thr' = [thr EXCEPT ![t] = Idle]
    /\ UNCHANGED <<consumers, asked, cutOff, wrong, calls>>

(* ocf_seq_detect_update of the least recently used stream. *)
Begun(t) ==
    [last |-> Addr(t) + Size(t), bytes |-> Size(t), count |-> 1, rw |-> Rw(t),
     valid |-> TRUE]

(* ocf_seq_detect_should_promote *)
ShouldPromote(s) == (PromoteBytes > 0 /\ s.bytes >= PromoteBytes) \/ s.count >= PromoteCount

(* The second one: the streams of the queue.  The stream is remembered and used
   after the lock is left. *)
UpdateQueue(t) ==
    LET d == QueueOf[t] IN
    /\ thr[t].pc = "queue"
    /\ \E f \in Find(d, Addr(t), Rw(t)) :
          LET i == IF f = None THEN Head(lru[d]) ELSE f
              s == IF f = None THEN Begun(t) ELSE Continued(stream[d][i], Size(t))
          IN  /\ stream' = [stream EXCEPT ![d][i] = s]
              /\ \E tree \in IF f = None THEN Insert(d, Removed(d, i), i, s) ELSE Grown(d, i, s) :
                    Replant(d, tree)
              /\ lru' = ToTail(d, i)
              /\ thr' = [MarkStale(Threads \ {t}, d, i) EXCEPT
                           ![t] = IF ShouldPromote(s)
                                  THEN [@ EXCEPT !.pc = "promote", !.from = i]
                                  ELSE Idle]
    /\ UNCHANGED <<consumers, asked, cutOff, wrong, calls>>

(* ocf_seq_detect_promote under both locks, of the stream that was remembered: valid
   is cleared in the tree. *)
Promote(t) ==
    LET d == QueueOf[t]
        c == CoreOf(t)
        i == thr[t].from
        s == [stream[d][i] EXCEPT !.valid = TRUE]
        k == Head(lru[c])
        out == IF stream[d][i].valid /\ Head(ListOf(d, i)) = i THEN {i} ELSE {}
    IN  /\ thr[t].pc = "promote"
        /\ stream' = [stream EXCEPT ![c][k] = s, ![d][i].valid = FALSE]
        /\ \E tree \in Insert(c, Removed(c, k), k, s) :
              /\ lists' = [lists EXCEPT ![c] = tree.lists]
              /\ misplaced' = [misplaced EXCEPT ![c] = tree.misplaced, ![d] = @ \cup out]
        /\ lru' = [ToTail(c, k) EXCEPT ![d] = <<i>> \o Without(d, i)]
        /\ wrong' = (wrong \/ (~thr[t].stale /\ ~ShouldPromote(s)))
        /\ thr' = [MarkStale(Threads \ {t}, d, i) EXCEPT ![t] = Idle]
        /\ UNCHANGED <<consumers, asked, cutOff, calls>>

(* ocf_seq_cutoff_set_policy: cutoff, the detector's consumer, is turned on or off;
   requests under way go on. *)
SetPolicy(c) ==
    /\ consumers' = IF c \in consumers THEN consumers \ {c} ELSE consumers \cup {c}
    /\ UNCHANGED <<stream, lists, misplaced, lru, thr, asked, cutOff, wrong, calls>>

-----------------------------------------------------------------------------
Step(t) ==
    \/ CheckQueue(t) \/ CheckCore(t) \/ Gate(t) \/ EngineFails(t)
    \/ UpdateCore(t) \/ UpdateQueue(t) \/ Promote(t)

Next ==
    \/ \E t \in Threads : Submit(t) \/ Step(t)
    \/ \E c \in Cores : SetPolicy(c)

Spec == Init /\ [][Next]_vars

-----------------------------------------------------------------------------
\* The variables have their types; the lru list of a detector holds each of its
\* streams once, and so do the nodes of its tree with their lists.
TypeOK ==
    /\ \A d \in Detectors :
          /\ Len(lru[d]) = NumStreams /\ ToSet(lru[d]) = Indices
          /\ \A i \in Indices : \E g \in lists[d] :
                i \in ToSet(g) /\ \A h \in lists[d] : i \in ToSet(h) => h = g
          /\ misplaced[d] \subseteq {Head(g) : g \in lists[d]}
          /\ \A i \in Indices : stream[d][i].rw \in {"rd", "wr"}
    /\ consumers \subseteq Cores
    /\ \A t \in Threads : thr[t].from \in Indices \cup {None}

\* ocf_rb_tree_find, ocf_rb_tree_can_update: the streams of a list all end where
\* their node ends, in the same direction, so that whatever a search returns from a
\* list really ends at the address it was given, valid or not.  Where nothing is out
\* of order no two nodes have one key.
ListsAgree ==
    \A d \in Detectors : \A g \in lists[d] :
        /\ \A k \in 1 .. Len(g) :
              /\ stream[d][g[k]].last = stream[d][Head(g)].last
              /\ stream[d][g[k]].rw = stream[d][Head(g)].rw
        /\ misplaced[d] = {} => \A h \in lists[d] :
              Key(stream[d][Head(h)]) = Key(stream[d][Head(g)]) => h = g

\* ocf_seq_detect_promote: a core's streams are never cleared, so its tree stays in
\* order and its search misses nothing.
CoresInOrder == \A c \in Cores : misplaced[c] = {}

\* ocf_seq_detect_update, ocf_seq_detect_promote: every block of every stream was
\* asked for in the stream's direction, though of any core; also of a stream that
\* was moved to a core and is found once more, whatever threads share a queue and
\* whatever a tree that is out of order makes a search miss.
StreamsTrue ==
    \A d \in Detectors, i \in Indices :
        \A b \in stream[d][i].last - stream[d][i].bytes .. stream[d][i].last - 1 :
            <<stream[d][i].rw, b>> \in asked

\* ocf_core_seq_cutoff_check: a request is cut off only as the end of a run of at
\* least the threshold, all of which was asked for, though of any core.
CutoffEarned ==
    \A c \in cutOff : /\ c[3] - c[2] + 1 >= Cutoff
                      /\ \A b \in c[2] .. c[3] : <<c[1], b>> \in asked

\* ocf_core_seq_detect_update: a stream that is moved to the core has grown enough,
\* unless another thread of the same queue used the stream while its pointer was
\* held without the lock.  It may have been moved before.
PromotionEarned == ~wrong

\* Sequential detection as a whole: what a search returns ends where the request
\* begins, and streams, promotions and cutoffs are earned by requests that really
\* were in sequence.
StreamsSound ==
    TypeOK /\ ListsAgree /\ CoresInOrder /\ StreamsTrue /\ CutoffEarned /\ PromotionEarned
==============================================================================
