---------------------------- MODULE MCSConsRebuild ----------------------------
(* A small project for SConsRebuild: gen from gin, whose second version the  *)
(* command of gen does not accept; obj from src and gen, and from hdr when   *)
(* the second version of src includes it.                                    *)
EXTENDS SConsRebuild

MCFiles == {"src", "hdr", "gin", "gen", "obj"}
MCKids == [t \in {"gen", "obj"} |-> IF t = "gen" THEN <<"gin">> ELSE <<"src", "gen">>]
MCIncludesOf(contents) ==
  FlattenSeq([i \in DOMAIN contents |-> IF contents[i] = <<"src", 2>> THEN <<"hdr", "gin">> ELSE <<>>])
MCMake(t, command, contents) == <<t, command, contents>>
MCFails(t, contents) == t = "gen" /\ contents = <<<<"gin", 2>>>>
MCVersions == [s \in {"src", "hdr", "gin"} |->
                 IF s = "hdr" THEN <<<<s, 1>>>> ELSE <<<<s, 1>>, <<s, 2>>>>]
MCCommands == [t \in {"gen", "obj"} |-> <<1, 2>>]
MCOrder == <<"src", "gin", "gen", "hdr", "obj">>

Options(d, files, use) ==
  [request |-> files, decider |-> d, max_drift |-> TRUE, use_cache |-> use]
All(d, use) == Options(d, {"gen", "obj"}, use)
Plan(r, c, k, e) ==
  [runs |-> r, max_changes |-> c, max_crashes |-> k, edits_while_building |-> e,
   coarse_clock |-> FALSE]

(* Three runs with two changes, and two runs one of which is killed. *)
Repeated == {Plan(<<All(d, FALSE), All(d, FALSE), All(d, FALSE)>>, 2, 0, FALSE) : d \in Deciders}
Killed == {Plan(<<All(d, FALSE), All(d, FALSE)>>, 1, 1, FALSE) : d \in Deciders}
(* The cache takes part, the decider changes, one target is asked for, and   *)
(* a source is edited under the run.                                         *)
WithCache == {Plan(<<All(d, TRUE), All(d, TRUE), All(d, TRUE)>>, 2, 0, FALSE) :
                d \in {"MD5", "timestamp-newer"}}
Switched == {Plan(<<All(d, FALSE), All(e, FALSE), All(d, FALSE)>>, 1, 0, FALSE) :
               d \in Deciders, e \in Deciders}
InPart == {Plan(<<All(d, FALSE), Options(d, {"gen"}, FALSE), All(d, FALSE)>>, 2, 0, FALSE) :
             d \in {"MD5", "MD5-timestamp"}}
EditedUnder == {Plan(<<All(d, FALSE), All(d, FALSE)>>, 1, 0, TRUE) : d \in Deciders}
(* The cache sets timestamps back before timestamp-newer decides; signatures *)
(* and timestamps of two moments are mixed, by deciders that take turns.     *)
SetBackThen == {Plan(<<Options("MD5", {"gen"}, TRUE), All("MD5", TRUE), Options("MD5", {"gen"}, TRUE),
                       All("timestamp-newer", FALSE)>>, 2, 0, FALSE)}
Mixing == {Plan(<<All("MD5", FALSE), All("timestamp-match", FALSE), All(d, FALSE),
                  [All("MD5", FALSE) EXCEPT !.max_drift = FALSE]>>, 1, 0, FALSE) :
             d \in {"MD5-timestamp", "timestamp-newer"}}
(* The clock may not tell two edits apart, nor an edit from what the run made. *)
Coarsely(plans) == {[p EXCEPT !.coarse_clock = TRUE] : p \in plans}
Coarse == Coarsely({Plan(<<All(d, FALSE), All(d, FALSE)>>, 2, 0, FALSE) : d \in Deciders}
                     \cup {Plan(<<All("timestamp-newer", FALSE), All("timestamp-newer", FALSE)>>,
                               1, 0, TRUE)})
MCPlans == Repeated \cup Killed \cup WithCache \cup Switched \cup InPart \cup EditedUnder
             \cup SetBackThen \cup Mixing \cup Coarse

=============================================================================
