----------------------------- MODULE SkillInstall -----------------------------
(***************************************************************************)
(* SkillInstaller.installSkill (packages/skills/src/installer.ts): the     *)
(* artifact is unpacked beside the directory of the skill, which is then   *)
(* replaced by a rename.  Both directories are named by the last part of   *)
(* the reference, so that two skills of one name in two scopes, or two     *)
(* processes, share them.  A file is what version of the skill it came     *)
(* with; SKILL.md and the rest stand for the files of an artifact.         *)
(***************************************************************************)
CONSTANTS
  Installs,  \* calls under way, each with an artifact of its own
  NoDir

Files == {"SKILL.md", "rest", "tarball"}

ASSUME NoDirAssumption == NoDir \notin [Files -> Installs \cup {"none"}]

VARIABLES
  skillDir, tmpDir,  \* dir[f]: the install whose file f is, "none"; or NoDir
  install,           \* install[i]: the step of a call
  overlapped         \* history: a call prepared tmpDir while another was using it

installVars == <<skillDir, tmpDir, install, overlapped>>

Empty == [f \in Files |-> "none"]

InstallInit ==
  /\ skillDir = NoDir /\ tmpDir = NoDir
  /\ install = [i \in Installs |-> "start"]
  /\ overlapped = FALSE

isSkillInstalled == skillDir # NoDir /\ skillDir["SKILL.md"] # "none"

Move(i, pc, next) == install[i] = pc /\ install' = [install EXCEPT ![i] = next]

(* ensureSkillsInstalled skips what is installed. *)
Resolve(i) == Move(i, "start", "download") /\ ~isSkillInstalled /\ UNCHANGED <<skillDir, tmpDir, overlapped>>

(* The artifact has arrived and its digest is right: an empty tmpDir with  *)
(* the tarball.                                                            *)
Prepare(i) ==
  /\ Move(i, "download", "unpack")
  /\ tmpDir' = [Empty EXCEPT !["tarball"] = i]
  /\ overlapped' = (overlapped \/ \E j \in Installs : install[j] \in {"unpack", "check", "clear", "rename", "fail"})
  /\ UNCHANGED skillDir

(* tar writes one file more of the artifact it was given. *)
Unpack(i, f) ==
  /\ install[i] = "unpack" /\ tmpDir # NoDir
  /\ tmpDir["tarball"] # "none" /\ tmpDir[f] # tmpDir["tarball"]
  /\ tmpDir' = [tmpDir EXCEPT ![f] = tmpDir["tarball"]]
  /\ UNCHANGED <<skillDir, install, overlapped>>

(* Mutant: how tar ended is not looked at. *)
UnpackedUnchecked(i) ==
  /\ Move(i, "unpack", "check")
  /\ tmpDir # NoDir /\ tmpDir["tarball"] # "none"
  /\ tmpDir' = [tmpDir EXCEPT !["tarball"] = "none"]
  /\ UNCHANGED <<skillDir, overlapped>>

(* tar is done, and the tarball is removed. *)
Unpacked(i) ==
  /\ Move(i, "unpack", "check")
  /\ tmpDir # NoDir /\ tmpDir["tarball"] # "none"
  /\ tmpDir["SKILL.md"] = tmpDir["tarball"] /\ tmpDir["rest"] = tmpDir["tarball"]
  /\ tmpDir' = [tmpDir EXCEPT !["tarball"] = "none"]
  /\ UNCHANGED <<skillDir, overlapped>>

(* Another process has installed it: tmpDir is removed and the call ends. *)
SkipRename(i) ==
  /\ Move(i, "check", "done") /\ isSkillInstalled
  /\ tmpDir' = NoDir
  /\ UNCHANGED <<skillDir, overlapped>>

GoOn(i) == Move(i, "check", "clear") /\ ~isSkillInstalled /\ UNCHANGED <<skillDir, tmpDir, overlapped>>

ClearSkillDir(i) == Move(i, "clear", "rename") /\ skillDir' = NoDir /\ UNCHANGED <<tmpDir, overlapped>>

(* renameSync, which throws when tmpDir is gone or skillDir has files. *)
Rename(i) ==
  /\ install[i] = "rename"
  /\ IF tmpDir # NoDir /\ skillDir \in {NoDir, Empty}
     THEN Move(i, "rename", "done") /\ skillDir' = tmpDir /\ tmpDir' = NoDir
     ELSE Move(i, "rename", "fail") /\ UNCHANGED <<skillDir, tmpDir>>
  /\ UNCHANGED overlapped

(* tar fails, is killed by its timeout, or finds its directory gone. *)
TarFails(i) == Move(i, "unpack", "fail") /\ UNCHANGED <<skillDir, tmpDir, overlapped>>

(* The catch removes tmpDir, and the call throws. *)
CleanUp(i) == Move(i, "fail", "start") /\ tmpDir' = NoDir /\ UNCHANGED <<skillDir, overlapped>>

(* The process dies, with tar, or the download fails. *)
Dies(i) ==
  /\ install[i] \notin {"start", "done"}
  /\ install' = [install EXCEPT ![i] = "start"]
  /\ UNCHANGED <<skillDir, tmpDir, overlapped>>

InstallNext ==
  \E i \in Installs :
    \/ Resolve(i) \/ Prepare(i) \/ Unpacked(i) \/ TarFails(i)
    \/ \E f \in {"SKILL.md", "rest"} : Unpack(i, f)
    \/ SkipRename(i) \/ GoOn(i) \/ ClearSkillDir(i) \/ Rename(i) \/ CleanUp(i) \/ Dies(i)

InstallSpec == InstallInit /\ [][InstallNext]_installVars

(* "atomic operation": what isSkillInstalled calls      *)
(* installed is all of one artifact and nothing else, whenever a process   *)
(* died before, as long as no call prepared tmpDir while another was using *)
(* it.  A call that does, in spite of the comment on concurrent safety,     *)
(* may have its own files moved into place half done.                      *)
InstalledIsWhole ==
  isSkillInstalled /\ ~overlapped =>
    skillDir["rest"] = skillDir["SKILL.md"] /\ skillDir["tarball"] = "none"
=============================================================================
