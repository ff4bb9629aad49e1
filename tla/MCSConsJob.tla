------------------------------ MODULE MCSConsJob ------------------------------
(* Small dependency graphs and options for SConsJob. *)
EXTENDS SConsJob

MCNodes == {"a", "b", "c", "d", "e", "s"}

Plain == [tops |-> <<"a">>, built |-> {},
          peers |-> [n \in MCNodes |-> <<n>>],
          kids |-> [n \in MCNodes |-> <<>>],
          prereq |-> [n \in MCNodes |-> <<>>],
          effects |-> [n \in MCNodes |-> <<>>],
          includes |-> [n \in MCNodes |-> {}],
          stale |-> {}, missing |-> {}, broken |-> {}, unscanned |-> {},
          exits |-> {}, pseudo |-> {}]

(* f with the values of the record g, whose fields are nodes. *)
With(f, g) == [n \in MCNodes |-> IF n \in DOMAIN g THEN g[n] ELSE f[n]]
Kids(g) == With(Plain.kids, g)

(* a from b and c, both from the generated d; d and b may be out of date. *)
Diamonds ==
  {[Plain EXCEPT !.built = {"a", "b", "c", "d"},
                 !.kids = Kids([a |-> <<"b", "c">>, b |-> <<"d">>, c |-> <<"d">>,
                                d |-> <<"e">>]),
                 !.stale = S, !.broken = B, !.missing = M] :
     S \in {{"a", "b", "c", "d"}, {"a", "b"}, {}}, B \in {{}, {"b"}}, M \in {{}, {"e"}}}

(* b and c have the side effect s, which a needs too; e is another target. *)
SideEffects ==
  {[Plain EXCEPT !.tops = <<"a", "e">>, !.built = {"a", "b", "c", "e"},
                 !.kids = Kids([a |-> <<"b", "s">>, b |-> <<"d">>, s |-> <<"b", "c">>,
                                e |-> <<"c">>]),
                 !.effects = With(Plain.effects, [b |-> <<"s">>, c |-> <<"s">>]),
                 !.stale = S, !.broken = B] :
     S \in {{"a", "b", "c", "e"}, {"a", "b"}}, B \in {{}, {"b"}}}

(* a from the source b, which includes the generated d, which includes e. *)
Headers ==
  {[Plain EXCEPT !.tops = <<"a", "c">>, !.built = {"a", "c", "d", "e"},
                 !.kids = Kids([a |-> <<"b">>, c |-> <<"b">>, d |-> <<"s">>]),
                 !.includes = With(Plain.includes, [b |-> {"d"}, d |-> {"e"}]),
                 !.stale = S, !.broken = B] :
     S \in {{"a", "c", "d", "e"}, {"a", "c", "e"}}, B \in {{}, {"e"}}}

(* b and c are made by one command; e may only be made after a. *)
Peers ==
  {[Plain EXCEPT !.tops = <<"e", "a">>, !.built = {"a", "b", "c", "e"},
                 !.peers = With(Plain.peers, [b |-> <<"b", "c">>, c |-> <<"b", "c">>]),
                 !.kids = Kids([a |-> <<"c">>, b |-> <<"d">>, c |-> <<"d">>, e |-> <<"b">>]),
                 !.prereq = With(Plain.prereq, [e |-> <<"a">>]),
                 !.stale = S] :
     S \in {{"a", "b", "e"}, {"c"}}}

(* A cycle from b to d, which needs the target b; a self cycle; a node that *)
(* cannot be scanned, a source that does not exist, a Pseudo() target.      *)
Faults ==
  {[Plain EXCEPT !.built = {"a", "b", "d"},
                 !.kids = Kids([a |-> <<"c", "b">>, b |-> <<"d">>, d |-> <<"b">>]),
                 !.stale = {"a", "b", "d"}],
   [Plain EXCEPT !.built = {"a"}, !.kids = Kids([a |-> <<"a">>]), !.stale = {"a"}],
   [Plain EXCEPT !.built = {"a", "b", "d"}, !.tops = <<"a", "c">>,
                 !.kids = Kids([a |-> <<"b", "d">>, b |-> <<"e">>, d |-> <<"e">>]),
                 !.stale = {"a", "b", "d"}, !.unscanned = {"b"}, !.missing = {"c"}],
   [Plain EXCEPT !.built = {"a", "b", "d"},
                 !.kids = Kids([a |-> <<"b", "d">>, b |-> <<"e">>, d |-> <<"e">>]),
                 !.stale = {"a", "b", "d"}, !.pseudo = {"b"}]}

(* b and d fail; one of them calls Exit(0), or the scanner of d does. *)
Exits ==
  {[Plain EXCEPT !.built = {"a", "b", "d"}, !.kids = Kids([a |-> <<"b", "d">>]),
                 !.stale = {"a", "b", "d"}, !.broken = B, !.unscanned = U, !.exits = {"d"}] :
     B \in {{"b", "d"}}, U \in {{}, {"d"}}}

MCGraphs == Diamonds \cup SideEffects \cup Headers \cup Peers \cup Faults \cup Exits

(* c fails between the examination of b, which waits for d and e, and that   *)
(* of e, which needs c; s waits for b.                                       *)
KeepGoing ==
  {[Plain EXCEPT !.tops = <<"a", "b", "s">>,
                 !.kids = Kids([a |-> <<"c">>, b |-> <<"d", "e">>, e |-> <<"c">>,
                                s |-> <<"b">>]),
                 !.built = {"a", "b", "c", "d", "e", "s"},
                 !.stale = {"a", "b", "c", "d", "e", "s"}, !.broken = {"c"}]}

Opt(j, m, k, i, r) == [jobs |-> j, mode |-> m, keep_going |-> k,
                       ignore_errors |-> i, random |-> r]
MCOptions ==
  {Opt(j, "build", k, FALSE, FALSE) : j \in {1, 2}, k \in BOOLEAN}
    \cup {Opt(1, "question", FALSE, FALSE, FALSE), Opt(2, "question", FALSE, FALSE, FALSE),
          Opt(2, "clean", FALSE, FALSE, FALSE),
          Opt(2, "build", FALSE, TRUE, FALSE), Opt(1, "build", FALSE, FALSE, TRUE)}

KeepGoingOptions == {Opt(2, "build", TRUE, FALSE, FALSE)}
=============================================================================
