------------------------------ MODULE SConsTime ------------------------------
(* scons-time: runs that time SCons on a project and leave a log per         *)
(* invocation, by two processes that may overlap, the reports over the logs, *)
(* and the axis of a plot.                                                   *)
EXTENDS Integers, Sequences, SequencesExt, FiniteSets, FiniteSetsExt

CONSTANTS Commands,     \* process -> set of [prefix, numbers, svn, wrapper, exec, preserve, tree]
          Reports,      \* [what, format, prefix, tail, stage]
          Titles,       \* run_titles: the logs of one run, counted from 0
          MaxY,         \* the largest value of a plot
          None

(* A prefix is the project's name, written as the numbers that follow its    *)
(* first word: "foo" is <<>>, "foo-2" is <<2>>.                              *)
Procs == DOMAIN Commands  \* processes "scons-time run"
TimeAssumption ==
  /\ \A c \in UNION Range(Commands) : c.prefix \in Seq(0 .. 9)
                         /\ \A r \in Range(c.numbers) : r = None \/ r[2] < 10000
  /\ \A r \in Reports : r.stage \in 1 .. 4

VARIABLES topic,
          proc,   \* SConsTimer: process -> [cmd, left, pc, index, count, scons,
          \*          wrapper, run, script, lib]
          logs,   \* file -> [by, script, lib, profile, lines]; a file is [prefix, run, index]
          temps,  \* the temporary directories: [of, kind]
          failed, \* runs whose check-out failed
          report, \* [asked, files, outcome, points], or None
          axis,   \* the largest value of the plot
          racing, \* pairs of runs that took one number before a log was written
          lost    \* [by, over, file]: logs that were written over

runVars == <<proc, logs, temps, failed, racing, lost>>
timeVars == <<topic, runVars, report, axis>>

(* split_run_numbers; without --number there is one run, of the next number. *)
split_run_numbers(numbers) ==
  FlattenSeq([i \in DOMAIN numbers |->
    IF numbers[i] = None THEN <<None>>
    ELSE [j \in 1 .. (numbers[i][2] - numbers[i][1] + 1) |-> numbers[i][1] + j - 1]])

SConsTimer(c) ==
  [cmd |-> c, left |-> IF c = None THEN <<>> ELSE split_run_numbers(c.numbers),
   pc |-> "next", index |-> 0, count |-> 0, scons |-> None, wrapper |-> IF c = None THEN None ELSE c.wrapper,
   run |-> None, script |-> None, lib |-> None]

TimeInit ==
  /\ topic \in {"run", "plot"}
  /\ \E cmds \in (IF topic = "run" THEN [Procs -> UNION Range(Commands) \cup {None}] ELSE {[p \in Procs |-> None]}) :
       /\ \A p \in Procs : cmds[p] \in Commands[p] \cup {None}
       /\ proc = [p \in Procs |-> SConsTimer(cmds[p])]
  /\ logs = [f \in {} |-> None] /\ temps = {} /\ failed = {}
  /\ report = None /\ racing = {} /\ lost = {}
  /\ axis \in (IF topic = "plot" THEN 0 .. MaxY ELSE {0})

-----------------------------------------------------------------------------
(* The characters of a name after its first word: digits, -2 for a hyphen    *)
(* and -1 for the dot.  Run numbers have at least three digits.              *)
Digits(n) == IF n < 1000 THEN <<n \div 100, (n \div 10) % 10, n % 10>>
             ELSE <<n \div 1000, (n \div 100) % 10, (n \div 10) % 10, n % 10>>
PrefixChars(prefix) == FlattenSeq([i \in DOMAIN prefix |-> <<-2, prefix[i]>>])
Chars(f) == PrefixChars(f.prefix) \o <<-2>> \o Digits(f.run) \o <<-2, f.index, -1>>

(* Any file that begins with the prefix and a number counts, be it of a      *)
(* project whose name goes on with a number.                                 *)
find_next_run_number(prefix) ==
  LET Counted(f) == f.prefix \o <<f.run, f.index>>
      found == {Counted(f)[Len(prefix) + 1] : f \in {g \in DOMAIN logs : IsPrefix(prefix, g.prefix)}}
  IN IF found = {} THEN 0 ELSE Max(found) + 1

Me(p) == <<p, proc[p].count>>
RunStep(p, from) == topic = "run" /\ proc[p].pc = from /\ report = None /\ UNCHANGED <<topic, report, axis>>

(* prep_subversion_run and the first part of individual_run: the path of     *)
(* SCons, the number and the directories.  A number of 0 is as none.         *)
StartRun(p) ==
  LET c == proc[p].cmd
      me == <<p, proc[p].count + 1>>
      asked == Head(proc[p].left)
      number == IF asked \in {None, 0} THEN find_next_run_number(c.prefix) ELSE asked
      scons == IF c.svn THEN <<"svn", me>> ELSE IF proc[p].scons = None THEN <<"own">> ELSE proc[p].scons
      unwritten(q) == proc[q].pc \in {"checkout", "unpack"} \/ (proc[q].pc = "log" /\ proc[q].index = 0)
      rivals == {q \in Procs \ {p} : /\ unwritten(q)
                                      /\ proc[q].cmd.prefix = c.prefix /\ proc[q].run = number}
  IN /\ RunStep(p, "next") /\ proc[p].left # <<>>
     /\ temps' = temps \cup {[of |-> me, kind |-> k] : k \in IF c.svn THEN {"tmp", "svn"} ELSE {"tmp"}}
     /\ proc' = [proc EXCEPT ![p].count = @ + 1, ![p].run = number, ![p].left = Tail(@),
                             ![p].scons = IF c.svn THEN scons ELSE @,
                             ![p].lib = scons,
                             ![p].script = IF proc[p].wrapper = None THEN scons ELSE proc[p].wrapper,
                             ![p].pc = IF ~c.exec THEN "next" ELSE IF c.svn THEN "checkout" ELSE "unpack"]
     /\ racing' = racing \cup {{me, Me(q)} : q \in rivals}
     /\ UNCHANGED <<logs, failed, lost>>

(* execute returns nothing, so a check-out that fails does not end the run. *)
CheckOut(p) ==
  /\ RunStep(p, "checkout")
  /\ \E ok \in BOOLEAN : failed' = IF ok THEN failed ELSE failed \cup {Me(p)}
  /\ proc' = [proc EXCEPT ![p].pc = "unpack"]
  /\ UNCHANGED <<logs, temps, racing, lost>>

(* untar, unzip or copytree, then os.chdir to the project's directory; these *)
(* are calls, and an exception ends the process where it is.                 *)
Unpack(p) ==
  /\ RunStep(p, "unpack")
  /\ proc' = [proc EXCEPT ![p].pc = IF proc[p].cmd.tree \in {"corrupt", "other name"} THEN "died" ELSE "log",
                          ![p].index = 0]
  /\ UNCHANGED <<logs, temps, failed, racing, lost>>

(* SCons writes its profile if it is there at all, and its stages unless the *)
(* project's script fails: two for --help, which stops before the build.     *)
Started(p) ==
  LET script == proc[p].script
  IN \/ script[1] # "svn"
     \/ [of |-> script[2], kind |-> "svn"] \in temps /\ script[2] \notin failed
Lines(p, index) ==
  IF ~Started(p) \/ proc[p].cmd.tree = "bad script" THEN 0 ELSE IF index = 0 THEN 2 ELSE 4

log_execute(p) ==
  LET i == proc[p].index
      file == [prefix |-> proc[p].cmd.prefix, run |-> proc[p].run, index |-> i]
      log == [by |-> Me(p), script |-> proc[p].script, lib |-> proc[p].lib,
              profile |-> Started(p), lines |-> Lines(p, i)]
  IN /\ RunStep(p, "log")
     /\ logs' = [f \in DOMAIN logs \cup {file} |-> IF f = file THEN log ELSE logs[f]]
     /\ lost' = IF file \in DOMAIN logs /\ logs[file].by # Me(p)
                THEN lost \cup {[by |-> Me(p), over |-> logs[file].by, file |-> file]} ELSE lost
     /\ proc' = [proc EXCEPT ![p].index = i + 1, ![p].pc = IF i + 1 = Titles THEN "clean" ELSE "log"]
     /\ UNCHANGED <<temps, failed, racing>>

(* The removals, and the paths of SCons as they were after the preparation. *)
CleanUp(p) ==
  /\ RunStep(p, "clean")
  /\ temps' = IF proc[p].cmd.preserve THEN temps ELSE {t \in temps : t.of # Me(p)}
  /\ proc' = [proc EXCEPT ![p].pc = "next", ![p].wrapper = proc[p].cmd.wrapper]
  /\ UNCHANGED <<logs, failed, racing, lost>>

-----------------------------------------------------------------------------
LexLess(a, b) == \E i \in 1 .. Min({Len(a) + 1, Len(b)}) :
                   SubSeq(a, 1, i - 1) = SubSeq(b, 1, i - 1) /\ (i > Len(a) \/ a[i] < b[i])

(* The names that begin with the prefix, sorted as names; the last tail. *)
args_to_files(among, prefix, tail) ==
  LET named == {f \in among : IsPrefix(PrefixChars(prefix), Chars(f))}
      rank(f) == Cardinality({g \in named : LexLess(Chars(g), Chars(f))})
      files == [i \in 1 .. Cardinality(named) |-> CHOOSE f \in named : rank(f) = i - 1]
  IN IF tail = None \/ tail >= Len(files) THEN files
     ELSE SubSeq(files, Len(files) - tail + 1, Len(files))

(* Whether a log has what is asked: without it a time is None, the memory of *)
(* a stage an empty list, and a count of objects an exception.               *)
get_debug_times(f) == logs[f].lines # 0
get_memory(f, stage) == stage <= logs[f].lines
get_object_counts(f) == logs[f].lines = 4

(* collect_results: a line of the plot for each index, a point for each run, *)
(* which are sorted: points of one run compare their values.                 *)
collect_results(files) == {[title |-> f.index, x |-> f.run, of |-> f] : f \in Range(files)}
Sorts(files) ==
  \A f, g \in Range(files) : (f # g /\ f.index = g.index /\ f.run = g.run) =>
                              (get_debug_times(f) <=> get_debug_times(g))

(* What is reported is judged at that moment: a behaviour ends with it. As   *)
(* bounds, reports are asked between runs, or while the first one cleans up. *)
Tell(r, files, outcome) ==
  /\ topic = "run" /\ report = None /\ files # <<>>
  /\ \A p \in Procs : proc[p].pc \in {"next", "died", "clean"}
  /\ report' = [asked |-> r, files |-> files, outcome |-> outcome,
                points |-> IF r.format = "gnuplot" /\ outcome = "table" THEN collect_results(files) ELSE {}]
  /\ UNCHANGED <<topic, runVars, axis>>

do_func(r) ==
  r.what = "func" /\ Tell(r, args_to_files({f \in DOMAIN logs : logs[f].profile}, r.prefix, r.tail), "table")

do_time(r) ==
  LET files == args_to_files(DOMAIN logs, r.prefix, r.tail)
  IN /\ r.what = "time"
     /\ Tell(r, files, IF r.format = "ascii" \/ Sorts(files) THEN "table" ELSE "TypeError")

do_mem(r) ==
  LET files == args_to_files(DOMAIN logs, r.prefix, r.tail)
  IN /\ r.what = "mem"
     /\ Tell(r, files, IF r.format = "ascii" \/ \A f \in Range(files) : get_memory(f, r.stage)
                       THEN "table" ELSE "TypeError")

do_obj(r) ==
  LET files == args_to_files(DOMAIN logs, r.prefix, r.tail)
  IN /\ r.what = "obj"
     /\ Tell(r, files, IF \A f \in Range(files) : get_object_counts(f) THEN "table" ELSE "dies")

-----------------------------------------------------------------------------
(* Plotter: the distance of the lines has one digit and zeros. *)
increment_size(largest) ==
  LET i == largest \div 5
      scale == IF i >= 1000 THEN 1000 ELSE IF i >= 100 THEN 100 ELSE IF i >= 10 THEN 10 ELSE 1
  IN IF i = 0 THEN largest ELSE (i \div scale) * scale

max_graph_value(y) ==
  LET largest == y + 1
      increment == increment_size(largest)
  IN ((largest + increment - 1) \div increment) * increment

(* Gnuplotter.draw, as far as the axis of its values. *)
Draw == /\ topic = "plot" /\ report = None
        /\ report' = [max |-> max_graph_value(axis), step |-> increment_size(axis + 1)]
        /\ UNCHANGED <<topic, runVars, axis>>

TimeNext ==
  \/ \E p \in Procs : StartRun(p) \/ CheckOut(p) \/ Unpack(p) \/ log_execute(p) \/ CleanUp(p)
  \/ \E r \in Reports : do_func(r) \/ do_time(r) \/ do_mem(r) \/ do_obj(r)
  \/ Draw

TimeSpec == TimeInit /\ [][TimeNext]_timeVars

-----------------------------------------------------------------------------
Command(run) == proc[run[1]].cmd
Given(run) == LET n == split_run_numbers(Command(run).numbers)[run[2]] IN IF n = 0 THEN None ELSE n

(* A run leaves the logs of other runs alone, unless its number was given,   *)
(* or both took the next number before either had written a log.             *)
RunsApart ==
  \A l \in lost : Given(l.by) # None \/ Given(l.over) # None \/ {l.by, l.over} \in racing

(* A run that was given a number, other than 0, writes the logs of that      *)
(* number, and with the SCons it was to time, unless a wrapper is configured.*)
TimedAsAsked ==
  \A f \in DOMAIN logs :
    LET run == logs[f].by
        wanted == IF Command(run).svn THEN <<"svn", run>> ELSE <<"own">>
    IN /\ Given(run) \in {None, f.run} /\ f.prefix = Command(run).prefix
       /\ logs[f].lib = wanted
       /\ logs[f].script = wanted \/ logs[f].script = Command(run).wrapper

(* A log without results is one of a failed check-out, which the run does    *)
(* not notice, or of a project whose script fails.                           *)
EmptyExplained ==
  \A f \in DOMAIN logs : logs[f].lines = 0 =>
    \/ logs[f].by \in failed /\ Command(logs[f].by).wrapper = None
    \/ Command(logs[f].by).tree = "bad script"

(* A process that is done leaves no directory behind, unless it is told to,  *)
(* or died, or ran with -n, which makes the directories but removes nothing. *)
NothingLeft ==
  \A t \in temps :
    LET p == t.of[1]
    IN \/ proc[p].cmd.preserve \/ ~proc[p].cmd.exec \/ proc[p].pc = "died"
       \/ t.of = Me(p) /\ proc[p].pc # "next"

(* A report is of the project that is asked for, and with a tail of its      *)
(* newest logs; unless another project's name goes on after that name, or a  *)
(* run number has a fourth digit.                                            *)
Mixed == \E f \in Range(report.files) : f.prefix # report.asked.prefix
OfAnother == \E f \in DOMAIN logs : f.prefix # report.asked.prefix
                                     /\ IsPrefix(report.asked.prefix, f.prefix)
ReportOfProject ==
  (topic = "run" /\ report # None) =>
    /\ Mixed => OfAnother
    /\ \A f \in Range(report.files), g \in DOMAIN logs :
         (/\ g.prefix = report.asked.prefix /\ g \notin Range(report.files) /\ f.prefix = g.prefix
          /\ report.asked.what = "func" => logs[g].profile) =>
           \/ f.run > g.run \/ (f.run = g.run /\ f.index > g.index)
           \/ g.run >= 1000 /\ f.run < 1000

(* A report of memory or of objects over logs that include a start-up log,   *)
(* as every run writes one, or a failed run's fails for the stages that they *)
(* lack; a report of times only over runs of two projects with one number.   *)
ReportWorks ==
  (topic = "run" /\ report # None /\ report.outcome # "table") =>
    \/ report.asked.what = "obj" /\ \E f \in DOMAIN logs : f.index = 0 \/ logs[f].lines = 0
    \/ report.asked.what = "mem" /\ \E f \in DOMAIN logs :
         logs[f].lines = 0 \/ (f.index = 0 /\ report.asked.stage > 2)
    \/ report.asked.what = "time" /\ Mixed

(* A line of a plot has one point for each run. *)
OnePoint ==
  (topic = "run" /\ report # None) =>
    \A a, b \in report.points : (a # b /\ a.title = b.title /\ a.x = b.x) => Mixed

(* The axis holds the largest value and less than a line more, and has no    *)
(* more than ten lines, and five at least for a value of five or more.       *)
AxisFits ==
  (topic = "plot" /\ report # None) =>
    LET count == report.max \div report.step
    IN /\ report.max > axis /\ report.max - report.step <= axis
       /\ count * report.step = report.max /\ count <= 10 /\ (axis >= 5 => count >= 5)

TimeSafe == RunsApart /\ TimedAsAsked /\ EmptyExplained /\ NothingLeft /\ ReportOfProject
            /\ ReportWorks /\ OnePoint /\ AxisFits

=============================================================================
