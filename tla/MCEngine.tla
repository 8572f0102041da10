------------------------------ MODULE MCEngine ------------------------------
(***************************************************************************)
(* Instances of Engine for TLC.                                            *)
(***************************************************************************)
EXTENDS Engine, TLC

CONSTANTS A, B, C,      \* requests
          l1, l2, l3,   \* core lines
          c1, c2,       \* cache lines
          s1, s2        \* sectors

Cmd(op, mode, l, secs) == [op |-> op, mode |-> mode, l |-> l, secs |-> secs]

\* All lines' entries share one metadata page.
OnePage == [c \in CacheLines |-> "page"]

Entry(l, valid, dirty) == [cl |-> l, valid |-> valid, dirty |-> dirty]
Unmapped == Entry(NoLine, {}, {})


\* The line c1 of interest: unmapped, or mapped in the ways that tell the
\* engines apart.  The other line is dirty, so that it is never evicted.
OfInterest == {Unmapped, Entry(l1, {s1}, {s1}), Entry(l1, {s1, s2}, {s1}),
               Entry(l1, {s1, s2}, {})}

Scenario(e, a, b, c, faulty) ==
    [lines |-> (c1 :> e) @@ (c2 :> Entry(l3, {s1}, {s1})),
     cmd |-> (A :> a) @@ (B :> b) @@ (C :> c), faults |-> faulty]

Both == {s1, s2}
Kinds == <<<<"read", "wt">>, <<"read", "wo">>, <<"read", "pt">>, <<"read", "cutoff">>,
           <<"write", "wt">>, <<"write", "wb">>, <<"write", "wa">>, <<"write", "wi">>,
           <<"discard", "wt">>, <<"clean", "wt">>>>
OnL1(k) == {Cmd(Kinds[k][1], Kinds[k][2], l1, S) :
              S \in IF Kinds[k][1] = "clean" THEN {Both} ELSE {{s1}, Both}}

\* Every pair of operations on one core line, with an I/O that may fail.
Pairs == UNION {UNION {{Scenario(e, a, b, NoLine, 1) :
                          e \in OfInterest, a \in OnL1(m), b \in OnL1(n)} :
                        n \in m..Len(Kinds)} : m \in 1..Len(Kinds)}

\* Three requests and two core lines that compete for c1.
Trios == {Scenario(e, a, b, c, 0) : e \in OfInterest,
            a \in {Cmd("write", "wb", l1, {s1}), Cmd("write", "wi", l1, Both)},
            b \in {Cmd("read", "wt", l1, Both), Cmd("read", "pt", l1, {s1})},
            c \in {Cmd("read", "wt", l2, Both), Cmd("write", "wb", l2, {s1}),
                   Cmd("clean", "wt", l1, {s1})}}

\* Two requests insert one core line into an empty cache.
Twins == {[Scenario(Unmapped, a, b, NoLine, 0) EXCEPT !.lines[c2] = Unmapped] :
            a, b \in {Cmd("read", "wt", l1, {s1}), Cmd("write", "wt", l1, Both),
                      Cmd("write", "wb", l1, {s1})}}

EngineScenarios == Pairs \cup Trios \cup Twins

\* For liveness: a request for one sector meets one for both, an I/O may fail,
\* and three requests queue for one line or compete for it.
EndScenarios ==
    {p \in Pairs : /\ p.lines[c1] \in {Unmapped, Entry(l1, Both, {s1})}
                   /\ p.cmd[A].secs = Both
                   /\ p.cmd[B].op = "clean" \/ p.cmd[B].secs = {s1}}
      \cup {p \in Trios : p.lines[c1] = Entry(l1, {s1}, {s1}) /\ p.cmd[B].mode = "wt"}

\* A write-invalidate, a second one, and a write-back after that.
DropScenarios ==
    {Scenario(Unmapped, Cmd("write", "wi", l1, {s1}), Cmd("write", "wi", l1, {s1}),
              Cmd("write", "wb", l1, {s1}), 0)}
=============================================================================
