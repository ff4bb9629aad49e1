--------------------------- MODULE SConsToolchains ---------------------------
(* How compilers are found: Visual C++ through its batch files               *)
(* (Tool/MSCommon), the Intel compilers of a Linux (Tool/intelc.py), and the *)
(* modules that tools are loaded from (Tool.__init__).  A behaviour is about *)
(* one of the three topics.                                                  *)
EXTENDS Integers, Sequences, SequencesExt, FiniteSets

CONSTANTS Machines,     \* [vcs, mingw]; vcs: version -> [cl, bat, sdk]
          VersionsOfVC, \* _VCVER: versions of Visual C++, newest first
          Requests,     \* [arch, vc, vs, tools]: arguments of Environment or Clone
          IntelSystems, \* sets of [version, style, icc]: directories below /opt/intel
          IntelRequests, \* [version, abi]
          ToolFiles,    \* tool -> toolpath directory -> "whole" | "broken"
          Builtins,     \* the tools of SCons itself
          None, MaxCalls

CONSTANT Host           \* the machine's own architecture
Canonical == [amd64 |-> "amd64", x86_64 |-> "amd64", x86 |-> "x86", arm |-> "arm", ia64 |-> "ia64"]

ToolchainsAssumption ==
  /\ Host \in DOMAIN Canonical
  /\ \A m \in Machines : DOMAIN m.vcs \subseteq Range(VersionsOfVC)
  /\ \A r \in Requests : r.arch \in DOMAIN Canonical \cup {None}

VARIABLES topic, calls, ended,
          machine,
          installed_vcs, \* __INSTALLED_VCS_RUN: [versions, arch], or None
          env,           \* [arch, vc, vs, run, cl, tool, asked, copied], or None
          intel,         \* [system, request, top, icc]
          modules,       \* sys.modules: name -> [file, globals, defines]
          tools          \* Tool objects: [name, module, file, defined]

visualVars == <<machine, installed_vcs, env>>
loadVars == <<modules, tools>>
toolchainVars == <<topic, calls, ended, visualVars, intel, loadVars>>

Envs == {1, 2}

ToolchainsInit ==
  /\ topic \in {"visual", "intel", "load"} /\ calls = 0 /\ ended = None
  /\ machine \in (IF topic = "visual" THEN Machines ELSE {None})
  /\ installed_vcs = None /\ env = [e \in Envs |-> None]
  /\ intel \in (IF topic = "intel"
                THEN [system : IntelSystems, request : IntelRequests, top : {None}, icc : {None}] ELSE {None})
  /\ modules = [t \in {} |-> None] /\ tools = <<>>

-----------------------------------------------------------------------------
(* get_host_target and _check_cl_exists_in_vc_dir: a compiler for the pair,  *)
(* or, from version 8 to 14, one that runs on x86; before, any compiler.     *)
Target(arch) == IF arch = None THEN Canonical[Host] ELSE Canonical[arch]
cl_exists(v, target) ==
  LET cl == machine.vcs[v].cl
  IN IF v < 80 THEN cl # {}
     ELSE \/ <<Canonical[Host], target>> \in cl
          \/ v <= 140 /\ Canonical[Host] = "amd64" /\ <<"x86", target>> \in cl

(* find_vc_pdir: the directory that the registry or vswhere names is there. *)
Installed(v) == v \in DOMAIN machine.vcs

get_installed_vcs(target) ==
  SelectSeq(VersionsOfVC, LAMBDA v : Installed(v) /\ cl_exists(v, target))

(* A step of the set-up: the environment, the list that is kept, and why the *)
(* run ended, if it did.                                                     *)
Setting(e) == [env |-> e, list |-> installed_vcs, ended |-> None]

cached_get_installed_vcs(s) ==
  IF s.ended # None \/ s.list # None THEN s
  ELSE IF s.env.arch \notin DOMAIN Canonical \cup {None} /\ DOMAIN machine.vcs # {}
  THEN [s EXCEPT !.ended = "target"]
  ELSE LET t == Target(s.env.arch)
       IN [s EXCEPT !.list = [versions |-> get_installed_vcs(t), arch |-> t]]

(* The argument of the batch file, or None: a pair that has none ends all.   *)
BatArch(host, tp) ==
  IF tp = "x86_amd64" THEN <<"x86", "amd64">>
  ELSE IF tp = host /\ host # "ia64" THEN <<host, host>>
  ELSE IF <<host, tp>> = <<"amd64", "x86">> THEN <<"x86", "x86">>
  ELSE IF <<host, tp>> \in {<<"x86", "amd64">>, <<"x86", "ia64">>, <<"x86", "arm">>, <<"amd64", "arm">>}
  THEN <<host, tp>> ELSE None

(* get_sdk_vc_script: the SDKs have scripts of their own for a pair. *)
SdkArch(host, tp) == IF host = "amd64" /\ tp = "x86" THEN <<"x86", "x86">> ELSE <<host, tp>>

SdkScript(version, pair) ==
  IF pair \in DOMAIN machine.vcs[version].sdk THEN machine.vcs[version].sdk[pair] ELSE None

(* script_env: a batch file sets the compiler up, complains that it lacks    *)
(* the target, or dies, which ends the run.                                  *)
RunScript(s, outcome, cl) ==
  IF outcome = "ok" THEN [s EXCEPT !.env.cl = cl]
  ELSE IF outcome = "dies" THEN [s EXCEPT !.ended = "batch"] ELSE s

(* One architecture of msvc_find_valid_batch_script: the SDK's script is for *)
(* a Visual C++ that has no batch file, not for one whose batch file fails.  *)
try_arch(s, version, tp) ==
  LET arg == BatArch(Canonical[Host], tp)
      bat == machine.vcs[version].bat
      sdk == SdkScript(version, SdkArch(Canonical[Host], tp))
      tried == [s EXCEPT !.env.arch = tp]
  IN IF s.ended # None \/ s.env.cl # None THEN s
     ELSE IF arg = None THEN [tried EXCEPT !.ended = "pair"]
     ELSE IF ~Installed(version) THEN cached_get_installed_vcs(tried)
     ELSE IF bat # None
     THEN RunScript(tried, IF arg \in DOMAIN bat THEN bat[arg] ELSE "missing", <<version, tp>>)
     ELSE RunScript(tried, sdk, <<version, tp>>)

find_valid_batch_script(s, version) ==
  LET req == s.env.arch
      archs == IF req \in {"amd64", "x86_64"} THEN <<Target(req), "x86_amd64">>
               ELSE IF req = None /\ Target(req) = "amd64" THEN <<"amd64", "x86_amd64", "x86">>
               ELSE <<Target(req)>>
      t == FoldLeft(LAMBDA u, tp : try_arch(u, version, tp), s, archs)
  IN IF req \notin DOMAIN Canonical \cup {None} THEN [s EXCEPT !.ended = "target"]
     ELSE IF t.env.cl = None /\ t.ended = None THEN [t EXCEPT !.env.arch = req] ELSE t

(* MSVS_VERSION, which is deprecated, goes first; s is after the list of     *)
(* installed versions was asked for, if it is needed.                        *)
get_default_version(s) ==
  IF s.env.vs # None THEN s.env.vs
  ELSE IF s.env.vc # None THEN s.env.vc
  ELSE IF s.ended # None \/ s.list.versions = <<>> THEN None ELSE Head(s.list.versions)

msvc_setup_env(s) ==
  LET known == IF s.env.vs # None \/ s.env.vc # None THEN s ELSE cached_get_installed_vcs(s)
      version == get_default_version(known)
  IN IF version = None THEN known
     ELSE find_valid_batch_script([known EXCEPT !.env.vc = version, !.env.vs = version], version)

msvc_setup_env_once(s) ==
  LET done == msvc_setup_env([s EXCEPT !.env.cl = None])
  IN IF s.ended # None \/ s.env.run THEN s
     ELSE IF done.ended # None THEN done ELSE [done EXCEPT !.env.run = TRUE]

(* tool_list for win32, as far as the C compiler: what exists is asked first. *)
tool_list(s) ==
  LET asked == cached_get_installed_vcs(s)
  IN [asked EXCEPT !.env.tool =
        IF asked.ended # None THEN None
        ELSE IF asked.list.versions = <<>> /\ machine.mingw THEN "mingw" ELSE "msvc"]

(* Tool "msvc" sets the compiler up; "default" is the tools of the list. *)
generate(s) == IF s.env.tool = "msvc" THEN msvc_setup_env_once(s) ELSE s
apply_tools(s, which) ==
  IF which = None THEN s
  ELSE generate(IF which = "default" THEN tool_list(s) ELSE [s EXCEPT !.env.tool = "msvc"])

(* What is passed is set before the tools run, and again after them. *)
Passed(e, r) ==
  [e EXCEPT !.arch = IF r.arch = None THEN @ ELSE r.arch,
            !.vc = IF r.vc = None THEN @ ELSE r.vc, !.vs = IF r.vs = None THEN @ ELSE r.vs]

Step(t) == topic = t /\ ended = None /\ calls < MaxCalls /\ calls' = calls + 1 /\ UNCHANGED topic

Made(e, start, r) ==
  LET s == apply_tools(Setting(Passed(start, r)), r.tools)
  IN /\ env' = [env EXCEPT ![e] = Passed(s.env, r)]
     /\ installed_vcs' = s.list
     /\ ended' = s.ended
     /\ UNCHANGED <<machine, intel, loadVars>>

Fresh(r) == [arch |-> None, vc |-> None, vs |-> None, run |-> FALSE, cl |-> None, tool |-> None,
             asked |-> r, copied |-> FALSE, stale |-> None]

Environment(e, r) ==
  /\ Step("visual") /\ env[e] = None /\ r.tools # None
  /\ Made(e, [Fresh(r) EXCEPT !.stale = IF installed_vcs = None THEN None ELSE installed_vcs.arch], r)

Clone(e, f, r) ==
  /\ Step("visual") /\ env[e] # None /\ env[f] = None
  /\ Made(f, [env[e] EXCEPT !.asked = r, !.copied = TRUE], r)

-----------------------------------------------------------------------------
(* get_all_compiler_versions, newest first; linux_ver_normalize makes one    *)
(* number of a version, and builds that differ by one may be taken for the   *)
(* same: the difference is that of two floating-point numbers.               *)
Older(v, w) == \E i \in 1 .. Len(v) : /\ \A j \in 1 .. (i - 1) : j <= Len(w) /\ v[j] = w[j]
                                      /\ i <= Len(w) /\ v[i] < w[i]
AllVersions == {d.version : d \in intel.system}
Near(v, w) == Len(v) = Len(w) /\ Front(v) = Front(w)
              /\ (Last(v) = Last(w) \/ (Len(v) = 3 /\ Last(v) - Last(w) \in {-1, 1}))

(* The newest, or those that the version asked for may stand for. *)
version_from_list(v) ==
  IF v = None THEN {w \in AllVersions : ~\E u \in AllVersions : Older(w, u)}
  ELSE {w \in AllVersions : Near(w, v)}

(* The directories of before 2010 are for one ABI, a later one is taken for  *)
(* any compiler in it.                                                       *)
get_intel_compiler_top(v, abi) ==
  {d \in intel.system : d.version = v /\ d.icc # {} /\ (d.style = "2008" => abi \in d.icc)}

(* The programs of the ABI are in a directory of their own, or what is in    *)
(* bin is taken.                                                             *)
BinDir(d, abi) == IF abi \in d.icc THEN abi ELSE None

IntelGenerate ==
  LET req == intel.request
      wanted == version_from_list(req.version)
  IN /\ Step("intel")
     /\ IF req.version # None /\ wanted = {} THEN ended' = "version" /\ UNCHANGED intel
        ELSE /\ UNCHANGED ended
             /\ \/ /\ \E v \in wanted : get_intel_compiler_top(v, req.abi) = {}
                   /\ UNCHANGED intel
                \/ \E v \in wanted : \E d \in get_intel_compiler_top(v, req.abi) :
                     intel' = [intel EXCEPT !.top = d.version, !.icc = BinDir(d, req.abi)]
     /\ UNCHANGED <<visualVars, loadVars>>

-----------------------------------------------------------------------------
(* Tool._tool_module: the first directory of the toolpath that has the file, *)
(* then SCons's own.  A module of that name that is already there and is of  *)
(* another file is executed again in place, so its functions change their    *)
(* globals; if that fails the module keeps the name of the new file.         *)
Name(t, dir) == IF dir = "SCons.Tool" THEN "SCons.Tool." \o t ELSE t
Whole(t, dir) == dir = "SCons.Tool" \/ ToolFiles[t][dir] = "whole"

Found(t, toolpath) ==
  LET has == SelectSeq(toolpath, LAMBDA d : d \in DOMAIN ToolFiles[t])
  IN IF has # <<>> THEN Head(has) ELSE IF t \in Builtins THEN "SCons.Tool" ELSE None

(* sys.modules with m under the name. *)
Put(name, m) == [n \in DOMAIN modules \cup {name} |-> IF n = name THEN m ELSE modules[n]]

(* Tool.__init__ takes the functions that the module has at that time. *)
ToolObject(t, dir, from) == [name |-> t, module |-> Name(t, dir), file |-> dir, defined |-> from]

LoadTool(t, toolpath) ==
  LET dir == Found(t, toolpath)
      name == Name(t, dir)
      loaded == name \in DOMAIN modules
  IN /\ Step("load")
     /\ IF dir = None THEN UNCHANGED <<modules, tools>>
        ELSE IF loaded /\ modules[name].file = dir
        THEN /\ tools' = Append(tools, ToolObject(t, dir, modules[name].defines))
             /\ UNCHANGED modules
        ELSE IF Whole(t, dir)
        THEN /\ modules' = Put(name, [file |-> dir, globals |-> dir, defines |-> dir])
             /\ tools' = Append(tools, ToolObject(t, dir, dir))
        ELSE /\ modules' = IF loaded THEN Put(name, [modules[name] EXCEPT !.file = dir, !.globals = dir])
                           ELSE modules
             /\ UNCHANGED tools
     /\ UNCHANGED <<ended, visualVars, intel>>

ToolchainsNext ==
  \/ \E e \in Envs, r \in Requests : Environment(e, r)
  \/ \E e, f \in Envs, r \in Requests : Clone(e, f, r)
  \/ IntelGenerate
  \/ \E t \in DOMAIN ToolFiles, p \in {<<>>, <<"a">>, <<"b">>, <<"b", "a">>} : LoadTool(t, p)

ToolchainsSpec == ToolchainsInit /\ [][ToolchainsNext]_toolchainVars

-----------------------------------------------------------------------------
Fits(arch, tp) == tp = Target(arch) \/ (tp = "x86_amd64" /\ Target(arch) = "amd64")

Usable(v, arch) ==
  /\ cl_exists(v, Target(arch))
  /\ LET vc == machine.vcs[v]
         arg == BatArch(Canonical[Host], Target(arch))
     IN vc.bat # None /\ arg \in DOMAIN vc.bat /\ vc.bat[arg] = "ok"

(* A compiler that was set up is for the version and the target that were    *)
(* asked for; a copy of an environment that was set up keeps the old one,    *)
(* the deprecated MSVS_VERSION wins, and who asks for no target gets x86 if the  *)
(* machine's own does not work.                                              *)
CompilerAsAsked ==
  \A e \in Envs : (topic = "visual" /\ env[e] # None /\ ended = None) =>
    LET r == env[e].asked
    IN env[e].cl # None =>
         \/ env[e].copied
         \/ /\ r.vc \in {None, env[e].cl[1]} \/ r.vs = env[e].cl[1]
            /\ \/ Fits(r.arch, env[e].cl[2])
               \/ r.arch = None /\ env[e].cl[2] = "x86" /\ ~Usable(env[e].cl[1], r.arch)

(* An environment that asks for no version gets a compiler if a version has  *)
(* one for its target and a batch file that works; unless the list was made  *)
(* for another target, or the newest version's batch file does not work.     *)
CompilerFound ==
  \A e \in Envs : (topic = "visual" /\ env[e] # None /\ ended = None) =>
    LET r == env[e].asked
        usable == {v \in DOMAIN machine.vcs : Usable(v, r.arch)}
    IN (r.vc = None /\ r.vs = None /\ usable # {} /\ env[e].cl = None) =>
         \/ env[e].copied
         \/ env[e].stale # None /\ env[e].stale # Target(r.arch)
         \/ \E v \in DOMAIN machine.vcs \ usable : /\ cl_exists(v, Target(r.arch))
                                                   /\ \A u \in usable : u < v

(* The scripts of an SDK are there for a batch file that fails, but one that *)
(* exists and fails is not followed by them.                                 *)
ScriptOfSdkTried ==
  \A e \in {f \in Envs : topic = "visual" /\ env[f] # None /\ ended = None} :
    env[e].run /\ ~env[e].copied /\ env[e].cl = None /\ env[e].vs \in DOMAIN machine.vcs =>
       LET vc == machine.vcs[env[e].vs]
           sdk == SdkArch(Canonical[Host], Target(env[e].asked.arch))
       IN sdk \notin DOMAIN vc.sdk \/ vc.sdk[sdk] # "ok" \/ vc.bat # None

(* A run only ends over a target that nobody knows, a pair without a batch   *)
(* argument, a batch file that dies, or the "x86_amd64" that an earlier      *)
(* set-up left in TARGET_ARCH.                                               *)
EndExplained ==
  (topic = "visual" /\ ended # None) =>
    \/ ended = "batch" /\ \E v \in DOMAIN machine.vcs :
         "dies" \in (IF machine.vcs[v].bat = None THEN Range(machine.vcs[v].sdk)
                     ELSE Range(machine.vcs[v].bat))
    \/ ended = "pair" /\ \E e \in Envs : env[e] # None /\ env[e].asked.arch # None
                                          /\ BatArch(Canonical[Host], Target(env[e].asked.arch)) = None
    \/ ended = "target" /\ \E e, f \in Envs : /\ e # f /\ env[e] # None /\ env[f] # None
                                              /\ env[f].copied /\ env[e].arch = "x86_amd64"
                                              /\ env[f].asked.arch = None

(* Intel's compiler is set up for the ABI and version that are asked for, if *)
(* it is there; unless the newest version, which is taken when none is asked *)
(* for, lacks that ABI, or a build next to the version is taken for it.      *)
IntelAsAsked ==
  (topic = "intel" /\ calls > 0 /\ ended = None) =>
    LET req == intel.request
        fits == {d \in intel.system : req.abi \in d.icc /\ req.version \in {None, d.version}}
    IN fits # {} =>
         \/ intel.icc = req.abi /\ req.version \in {None, intel.top}
         \/ req.version = None /\ \A d \in fits : \E v \in AllVersions : Older(d.version, v)
         \/ req.version # None /\ \E v \in AllVersions \ {req.version} : Near(v, req.version)
         \/ \E d \in intel.system \ fits : d.version = intel.top /\ d.style # "2008"

(* A tool's functions are those of its file, with that file's globals,       *)
(* unless a file of the same name in another directory was executed since,   *)
(* or an attempt to load its own file had failed.                            *)
ToolOfItsFile ==
  \A i \in DOMAIN tools :
    LET t == tools[i]
    IN \/ t.file = t.defined /\ (modules[t.module].globals = t.file
                                 \/ modules[t.module].file \in DOMAIN ToolFiles[t.name] \ {t.file})
       \/ t.file # t.defined /\ ToolFiles[t.name][t.file] = "broken"

ToolchainsSafe == CompilerAsAsked /\ CompilerFound /\ ScriptOfSdkTried /\ EndExplained
                  /\ IntelAsAsked /\ ToolOfItsFile

=============================================================================
