------------------------- MODULE MCPlatform_proofs -------------------------
(***************************************************************************)
(* Proofs about the packages around a run (the agent worker, the client of *)
(* the tool servers, installed skills, the pool of sandboxes, memory), the *)
(* llm-router's translation of requests and of answers and its metering of *)
(* streams, and about MCPlatform, which the run explores part by part:     *)
(* every behaviour of it is one of every part, so that what is proved of   *)
(* the parts, here and in RunCreation_proofs and Services_proofs, holds of *)
(* it.                                                                     *)
(***************************************************************************)
EXTENDS MCPlatform, RunCreation_proofs, Services_proofs, SequenceTheorems, FiniteSetTheorems

-----------------------------------------------------------------------------
(* The worker, skills and tool servers (AgentWorker, SkillInstall, McpClient). *)

PromptRow == [pc: {"idle", "streaming", "aborted"},
              session: Sessions \cup {CHOOSE s \in Sessions : TRUE}, shared: BOOLEAN]

(* Prompts that met in a session are marked as having shared it.           *)
SharedMarked ==
  \A s \in Sessions : \A p, q \in Unsettled(s) : p # q => prompt[p].shared

WorkerInv ==
  /\ activeSessions \in [Sessions -> Prompts \cup {NoPrompt}]
  /\ prompt \in [Prompts -> PromptRow]
  /\ \A p \in Prompts : prompt[p].pc # "idle" => prompt[p].session \in Sessions
  /\ SharedMarked /\ SessionsSound

LEMMA WorkerInitInv == WorkerInit => WorkerInv
<1> SUFFICES ASSUME WorkerInit PROVE WorkerInv
  OBVIOUS
<1>1. prompt \in [Prompts -> PromptRow] /\ \A p \in Prompts : prompt[p].pc = "idle"
  BY DEF WorkerInit, PromptRow
<1>2. activeSessions = [s \in Sessions |-> NoPrompt]
  BY DEF WorkerInit
<1> QED
  BY <1>1, <1>2 DEF WorkerInv, SharedMarked, Unsettled, SessionsSound

LEMMA WorkerStep == WorkerInv /\ [WorkerNext]_workerVars => WorkerInv'
<1> SUFFICES ASSUME WorkerInv, [WorkerNext]_workerVars PROVE WorkerInv'
  OBVIOUS
<1>t. /\ activeSessions \in [Sessions -> Prompts \cup {NoPrompt}]
      /\ prompt \in [Prompts -> PromptRow]
      /\ \A p \in Prompts : prompt[p].pc # "idle" => prompt[p].session \in Sessions
  BY DEF WorkerInv
<1>a. \A s \in Sessions : activeSessions[s] # NoPrompt =>
        prompt[activeSessions[s]].pc = "streaming" /\ prompt[activeSessions[s]].session = s
  BY DEF WorkerInv, SessionsSound
<1>b. \A p \in Prompts : prompt[p].pc = "streaming" /\ ~prompt[p].shared =>
        activeSessions[prompt[p].session] = p
  BY DEF WorkerInv, SessionsSound
<1>c. \A s \in Sessions : \A p, q \in Prompts :
        p # q /\ p \in Unsettled(s) /\ q \in Unsettled(s) => prompt[p].shared
  BY DEF WorkerInv, SharedMarked
(* Who was in the session another prompt comes to is marked.               *)
<1>1. ASSUME NEW s \in Sessions, NEW q \in Prompts
      PROVE  /\ Joined(s)[q] \in PromptRow
             /\ Joined(s)[q].pc = prompt[q].pc /\ Joined(s)[q].session = prompt[q].session
             /\ Joined(s)[q].shared <=> prompt[q].shared \/ q \in Unsettled(s)
  <2> DEFINE shared == prompt[q].shared \/ q \in Unsettled(s)
  <2>1. Joined(s)[q] = [prompt[q] EXCEPT !.shared = shared]
    BY DEF Joined
  <2>2. shared \in BOOLEAN /\ prompt[q] \in PromptRow
    BY <1>t
  <2> HIDE DEF shared
  <2>3. /\ Joined(s)[q] \in PromptRow /\ Joined(s)[q].shared = shared
        /\ Joined(s)[q].pc = prompt[q].pc /\ Joined(s)[q].session = prompt[q].session
    BY <2>1, <2>2 DEF PromptRow
  <2> QED
    BY <2>3 DEF shared
<1>2. ASSUME NEW p \in Prompts, NEW s \in Sessions, StartPrompt(p, s) PROVE WorkerInv'
  <2> DEFINE met == Unsettled(s) # {}
             new == [pc |-> "streaming", session |-> s, shared |-> met]
  <2>1. /\ prompt[p].pc = "idle" /\ activeSessions' = [activeSessions EXCEPT ![s] = p]
        /\ prompt' = [Joined(s) EXCEPT ![p] = new]
    BY <1>2 DEF StartPrompt
  <2>2. met \in BOOLEAN /\ (~ met => Unsettled(s) = {}) /\ p \notin Unsettled(s)
    BY <2>1 DEF Unsettled
  <2> HIDE DEF met
  <2>3. DOMAIN Joined(s) = Prompts
    BY DEF Joined
  <2>4. /\ prompt' \in [Prompts -> PromptRow] /\ prompt'[p] = new
        /\ \A q \in Prompts : q # p =>
             /\ prompt'[q].pc = prompt[q].pc /\ prompt'[q].session = prompt[q].session
             /\ prompt'[q].shared <=> prompt[q].shared \/ q \in Unsettled(s)
    <3>1. new \in PromptRow
      BY <2>2 DEF PromptRow
    <3>2. \A q \in Prompts : q # p => prompt'[q] = Joined(s)[q]
      BY <2>1, <2>3
    <3>3. prompt'[p] = new /\ prompt' \in [Prompts -> PromptRow]
      <4>1. prompt' = [q \in Prompts |-> IF q = p THEN new ELSE Joined(s)[q]]
        BY <2>1, <2>3
      <4> QED
        BY <1>1, <3>1, <4>1
    <3> QED
      BY <1>1, <3>2, <3>3
  <2>5. new.pc = "streaming" /\ new.session = s /\ (~ new.shared => ~ met) /\ (met => new.shared)
    OBVIOUS
  <2>6. \A q \in Prompts : \A z \in Sessions : q # p => (q \in Unsettled(z)' <=> q \in Unsettled(z))
    BY <2>4 DEF Unsettled
  <2>7. SharedMarked'
    <3> SUFFICES ASSUME NEW z \in Sessions, NEW x \in Unsettled(z)', NEW y \in Unsettled(z)', x # y
                 PROVE  prompt'[x].shared
      BY DEF SharedMarked
    <3>1. x \in Prompts /\ y \in Prompts
      BY DEF Unsettled
    <3>2. CASE x = p
      <4>1. z = s /\ y \in Unsettled(s)
        BY <2>4, <2>5, <2>6, <3>1, <3>2 DEF Unsettled
      <4> QED
        BY <2>2, <2>4, <2>5, <3>2, <4>1
    <3>3. CASE y = p
      <4>1. z = s /\ x \in Unsettled(s)
        BY <2>4, <2>5, <2>6, <3>1, <3>3 DEF Unsettled
      <4> QED
        BY <2>4, <3>1, <3>3, <4>1
    <3>4. CASE x # p /\ y # p
      BY <1>c, <2>4, <2>6, <3>1, <3>4
    <3> QED
      BY <3>2, <3>3, <3>4
  <2>8. activeSessions' \in [Sessions -> Prompts \cup {NoPrompt}] /\ activeSessions'[s] = p
        /\ \A z \in Sessions : z # s => activeSessions'[z] = activeSessions[z]
    BY <1>t, <2>1
  <2>9. SessionsSound'
    <3>1. ASSUME NEW z \in Sessions, activeSessions'[z] # NoPrompt
          PROVE  prompt'[activeSessions'[z]].pc = "streaming" /\ prompt'[activeSessions'[z]].session = z
      <4>1. CASE z = s
        BY <2>4, <2>5, <2>8, <4>1
      <4>2. CASE z # s
        <5>1. activeSessions'[z] = activeSessions[z] /\ activeSessions[z] \in Prompts
          BY <1>t, <2>8, <3>1, <4>2
        <5>2. activeSessions[z] # p
          BY <1>a, <2>1, <3>1, <5>1
        <5> QED
          BY <1>a, <2>4, <3>1, <5>1, <5>2
      <4> QED
        BY <4>1, <4>2
    <3>2. ASSUME NEW q \in Prompts, prompt'[q].pc = "streaming", ~ prompt'[q].shared
          PROVE  activeSessions'[prompt'[q].session] = q
      <4>1. CASE q = p
        BY <2>4, <2>5, <2>8, <4>1
      <4>2. CASE q # p
        <5>1. prompt[q].pc = "streaming" /\ ~ prompt[q].shared /\ q \notin Unsettled(s)
          BY <2>4, <3>2, <4>2
        <5>2. prompt[q].session # s /\ prompt[q].session \in Sessions
          BY <1>t, <5>1 DEF Unsettled
        <5> QED
          BY <1>b, <2>4, <2>8, <4>2, <5>1, <5>2
      <4> QED
        BY <4>1, <4>2
    <3> QED
      BY <3>1, <3>2 DEF SessionsSound
  <2>10. \A q \in Prompts : prompt'[q].pc # "idle" => prompt'[q].session \in Sessions
    BY <1>t, <2>4, <2>5
  <2> QED
    BY <2>4, <2>7, <2>8, <2>9, <2>10 DEF WorkerInv
<1>3. ASSUME NEW p \in Prompts, NEW s \in Sessions, RefusePrompt(p, s) PROVE WorkerInv'
  <2>1. activeSessions' = [activeSessions EXCEPT ![s] = NoPrompt] /\ prompt' = Joined(s)
    BY <1>3 DEF RefusePrompt
  <2>2. /\ prompt' \in [Prompts -> PromptRow]
        /\ \A q \in Prompts :
             /\ prompt'[q].pc = prompt[q].pc /\ prompt'[q].session = prompt[q].session
             /\ prompt'[q].shared <=> prompt[q].shared \/ q \in Unsettled(s)
    BY <1>1, <2>1 DEF Joined
  <2>3. \A z \in Sessions : Unsettled(z)' = Unsettled(z)
    BY <2>2 DEF Unsettled
  <2>4. SharedMarked'
    BY <1>c, <2>2, <2>3 DEF SharedMarked, Unsettled
  <2>5. activeSessions' \in [Sessions -> Prompts \cup {NoPrompt}] /\ activeSessions'[s] = NoPrompt
        /\ \A z \in Sessions : z # s => activeSessions'[z] = activeSessions[z]
    BY <1>t, <2>1
  <2>6. ASSUME NEW z \in Sessions, activeSessions'[z] # NoPrompt
        PROVE  prompt'[activeSessions'[z]].pc = "streaming" /\ prompt'[activeSessions'[z]].session = z
    <3>1. activeSessions'[z] = activeSessions[z] /\ activeSessions[z] \in Prompts
      BY <1>t, <2>5, <2>6
    <3> QED
      BY <1>a, <2>2, <2>6, <3>1
  <2>7. ASSUME NEW q \in Prompts, prompt'[q].pc = "streaming", ~ prompt'[q].shared
        PROVE  activeSessions'[prompt'[q].session] = q
    <3>1. prompt[q].pc = "streaming" /\ ~ prompt[q].shared /\ q \notin Unsettled(s)
      BY <2>2, <2>7
    <3>2. prompt[q].session # s /\ prompt[q].session \in Sessions
      BY <1>t, <3>1 DEF Unsettled
    <3> QED
      BY <1>b, <2>2, <2>5, <3>1, <3>2
  <2> QED
    BY <1>t, <2>2, <2>4, <2>5, <2>6, <2>7 DEF WorkerInv, SessionsSound
<1>4. ASSUME NEW p \in Prompts, Settle(p) PROVE WorkerInv'
  <2> DEFINE s == prompt[p].session
  <2>1. /\ prompt[p].pc \in {"streaming", "aborted"} /\ s \in Sessions
        /\ activeSessions' = [activeSessions EXCEPT ![s] = NoPrompt]
        /\ prompt' = [prompt EXCEPT ![p].pc = "idle", ![p].shared = FALSE]
    BY <1>4, <1>t DEF Settle
  <2>2. /\ prompt' \in [Prompts -> PromptRow] /\ prompt'[p].pc = "idle"
        /\ \A q \in Prompts : q # p => prompt'[q] = prompt[q]
    BY <1>t, <2>1 DEF PromptRow
  <2>3. SharedMarked'
    BY <1>c, <2>2 DEF SharedMarked, Unsettled
  <2>4. activeSessions' \in [Sessions -> Prompts \cup {NoPrompt}] /\ activeSessions'[s] = NoPrompt
        /\ \A z \in Sessions : z # s => activeSessions'[z] = activeSessions[z]
    BY <1>t, <2>1
  <2>5. ASSUME NEW z \in Sessions, activeSessions'[z] # NoPrompt
        PROVE  prompt'[activeSessions'[z]].pc = "streaming" /\ prompt'[activeSessions'[z]].session = z
    <3>1. activeSessions'[z] = activeSessions[z] /\ activeSessions[z] \in Prompts /\ z # s
      BY <1>t, <2>4, <2>5
    <3>2. activeSessions[z] # p
      BY <1>a, <2>5, <3>1
    <3> QED
      BY <1>a, <2>2, <2>5, <3>1, <3>2
  <2>6. ASSUME NEW q \in Prompts, prompt'[q].pc = "streaming", ~ prompt'[q].shared
        PROVE  activeSessions'[prompt'[q].session] = q
    <3>1. q # p /\ prompt'[q] = prompt[q]
      BY <2>2, <2>6
    <3>2. prompt[q].session # s
      BY <1>c, <2>1, <2>6, <3>1 DEF Unsettled
    <3> QED
      BY <1>b, <1>t, <2>4, <2>6, <3>1, <3>2
  <2> QED
    BY <1>t, <2>2, <2>3, <2>4, <2>5, <2>6 DEF WorkerInv, SessionsSound
<1>5. ASSUME NEW s \in Sessions, AbortSession(s) PROVE WorkerInv'
  <2> DEFINE p == activeSessions[s]
  <2>1. /\ p \in Prompts /\ prompt[p].session = s
        /\ prompt' = [prompt EXCEPT ![p].pc = "aborted"]
        /\ activeSessions' = [activeSessions EXCEPT ![s] = NoPrompt]
    BY <1>5, <1>t, <1>a DEF AbortSession
  <2> HIDE DEF p
  <2>2. /\ prompt' \in [Prompts -> PromptRow] /\ prompt'[p].pc = "aborted" /\ prompt'[p].session = s
        /\ prompt'[p].shared = prompt[p].shared
        /\ \A q \in Prompts : q # p => prompt'[q] = prompt[q]
    BY <1>t, <2>1 DEF PromptRow
  <2>3. \A z \in Sessions : Unsettled(z)' = Unsettled(z)
    BY <1>5, <1>a, <2>1, <2>2 DEF Unsettled, p, AbortSession
  <2>4. SharedMarked'
    BY <1>c, <2>2, <2>3 DEF SharedMarked, Unsettled
  <2>5. activeSessions' \in [Sessions -> Prompts \cup {NoPrompt}] /\ activeSessions'[s] = NoPrompt
        /\ \A z \in Sessions : z # s => activeSessions'[z] = activeSessions[z]
    BY <1>t, <2>1
  <2>6. ASSUME NEW z \in Sessions, activeSessions'[z] # NoPrompt
        PROVE  prompt'[activeSessions'[z]].pc = "streaming" /\ prompt'[activeSessions'[z]].session = z
    <3>1. activeSessions'[z] = activeSessions[z] /\ activeSessions[z] \in Prompts /\ z # s
      BY <1>t, <2>5, <2>6
    <3>2. activeSessions[z] # p
      BY <1>a, <2>1, <2>6, <3>1
    <3> QED
      BY <1>a, <2>2, <2>6, <3>1, <3>2
  <2>7. ASSUME NEW q \in Prompts, prompt'[q].pc = "streaming", ~ prompt'[q].shared
        PROVE  activeSessions'[prompt'[q].session] = q
    <3>1. q # p /\ prompt'[q] = prompt[q]
      BY <2>2, <2>7
    <3>2. activeSessions[prompt[q].session] = q /\ prompt[q].session \in Sessions
      BY <1>b, <1>t, <2>7, <3>1
    <3> QED
      BY <2>5, <3>1, <3>2 DEF p
  <2> QED
    BY <1>t, <2>1, <2>2, <2>4, <2>5, <2>6, <2>7 DEF WorkerInv, SessionsSound
<1>6. CASE UNCHANGED workerVars
  BY <1>6 DEF workerVars, WorkerInv, SharedMarked, Unsettled, SessionsSound
<1> QED
  BY <1>2, <1>3, <1>4, <1>5, <1>6 DEF WorkerNext

(* What /abort finds is a stream of that session.                          *)
THEOREM SessionsAlwaysSound == WorkerSpec => []SessionsSound
<1>1. WorkerInv => SessionsSound
  BY DEF WorkerInv
<1> QED
  BY <1>1, WorkerInitInv, WorkerStep, PTL DEF WorkerSpec

-----------------------------------------------------------------------------
Dirs == [Files -> Installs \cup {"none"}]

(* A directory with the files of one artifact, and the tarball gone.       *)
Whole(dir) == dir \in Dirs /\ dir["rest"] = dir["SKILL.md"] /\ dir["tarball"] = "none"

(* A call that has prepared tmpDir.                                        *)
UsesTmp(i) == install[i] \in {"unpack", "check", "clear", "rename", "fail"}

InstallInv ==
  /\ install \in [Installs -> {"start", "download", "unpack", "check", "clear", "rename", "fail", "done"}]
  /\ skillDir \in Dirs \cup {NoDir} /\ tmpDir \in Dirs \cup {NoDir}
  /\ overlapped \in BOOLEAN
  /\ ~ overlapped =>
       /\ \A i, j \in Installs : UsesTmp(i) /\ UsesTmp(j) => i = j
       /\ \A i \in Installs : install[i] \in {"check", "clear", "rename"} => Whole(tmpDir)
  /\ InstalledIsWhole

LEMMA InstallInitInv == InstallInit => InstallInv
  BY DEF InstallInit, InstallInv, UsesTmp, InstalledIsWhole, isSkillInstalled

LEMMA InstallStep == InstallInv /\ [InstallNext]_installVars => InstallInv'
<1> SUFFICES ASSUME InstallInv, [InstallNext]_installVars PROVE InstallInv'
  OBVIOUS
<1> DEFINE Pcs == {"start", "download", "unpack", "check", "clear", "rename", "fail", "done"}
<1>t. /\ install \in [Installs -> Pcs]
      /\ skillDir \in Dirs \cup {NoDir} /\ tmpDir \in Dirs \cup {NoDir} /\ overlapped \in BOOLEAN
      /\ InstalledIsWhole
      /\ ~ overlapped =>
           /\ \A i, j \in Installs : UsesTmp(i) /\ UsesTmp(j) => i = j
           /\ \A i \in Installs : install[i] \in {"check", "clear", "rename"} => Whole(tmpDir)
  BY DEF InstallInv
(* A step of one call that begins no use of tmpDir.                        *)
<1>1. ASSUME NEW i \in Installs, NEW next \in Pcs,
             install' = [install EXCEPT ![i] = next], overlapped' = overlapped,
             skillDir' = skillDir, tmpDir' \in Dirs \cup {NoDir},
             next \in {"unpack", "check", "clear", "rename", "fail"} => UsesTmp(i),
             next \in {"check", "clear", "rename"} => overlapped \/ Whole(tmpDir'),
             tmpDir' = tmpDir \/ UsesTmp(i)
      PROVE  InstallInv'
  <2>1. install' \in [Installs -> Pcs] /\ install'[i] = next /\ \A j \in Installs : j # i => install'[j] = install[j]
    BY <1>t, <1>1
  <2>2. ~ overlapped => \A j, k \in Installs : UsesTmp(j)' /\ UsesTmp(k)' => j = k
    BY <1>t, <1>1, <2>1 DEF UsesTmp
  <2>3. ASSUME ~ overlapped, NEW j \in Installs, install'[j] \in {"check", "clear", "rename"}
        PROVE  Whole(tmpDir')
    <3>1. CASE j = i
      BY <1>1, <2>1, <2>3, <3>1
    <3>2. CASE j # i
      <4>1. UsesTmp(j) /\ install[j] \in {"check", "clear", "rename"}
        BY <2>1, <2>3, <3>2 DEF UsesTmp
      <4>2. ~ UsesTmp(i)
        BY <1>t, <2>3, <3>2, <4>1
      <4> QED
        BY <1>t, <1>1, <2>3, <4>1, <4>2
    <3> QED
      BY <3>1, <3>2
  <2>4. InstalledIsWhole'
    BY <1>t, <1>1 DEF InstalledIsWhole, isSkillInstalled
  <2> QED
    BY <1>t, <1>1, <2>1, <2>2, <2>3, <2>4 DEF InstallInv, Whole
<1>2. ASSUME NEW i \in Installs, Resolve(i) \/ GoOn(i) \/ TarFails(i) \/ Dies(i) PROVE InstallInv'
  BY <1>1, <1>2, <1>t DEF Resolve, GoOn, TarFails, Dies, Move, UsesTmp
<1>3. ASSUME NEW i \in Installs, Prepare(i) PROVE InstallInv'
  <2>1. /\ install[i] = "download" /\ install' = [install EXCEPT ![i] = "unpack"] /\ skillDir' = skillDir
        /\ tmpDir' = [Empty EXCEPT !["tarball"] = i]
        /\ overlapped' = (overlapped \/ \E j \in Installs : UsesTmp(j))
    BY <1>3 DEF Prepare, Move, UsesTmp
  <2>2. tmpDir' \in Dirs
    BY <2>1 DEF Dirs, Empty, Files
  <2>3. /\ install' \in [Installs -> Pcs] /\ install'[i] = "unpack"
        /\ \A j \in Installs : j # i => install'[j] = install[j]
    BY <1>t, <2>1
  <2>4. overlapped' \in BOOLEAN /\ (~ overlapped' => ~ overlapped /\ \A j \in Installs : ~ UsesTmp(j))
    BY <2>1
  <2>5. ~ overlapped' =>
          /\ \A j, k \in Installs : UsesTmp(j)' /\ UsesTmp(k)' => j = k
          /\ \A j \in Installs : install'[j] \notin {"check", "clear", "rename"}
    BY <2>3, <2>4 DEF UsesTmp
  <2>6. InstalledIsWhole'
    BY <1>t, <2>1, <2>4 DEF InstalledIsWhole, isSkillInstalled
  <2> QED
    BY <1>t, <2>1, <2>2, <2>3, <2>4, <2>5, <2>6 DEF InstallInv
<1>4. ASSUME NEW i \in Installs, NEW f \in {"SKILL.md", "rest"}, Unpack(i, f) PROVE InstallInv'
  <2>1. /\ install[i] = "unpack" /\ install' = install /\ tmpDir \in Dirs
        /\ skillDir' = skillDir /\ overlapped' = overlapped
        /\ tmpDir' = [tmpDir EXCEPT ![f] = tmpDir["tarball"]]
    BY <1>4, <1>t DEF Unpack
  <2>2. tmpDir' \in Dirs
    BY <2>1 DEF Dirs, Files
  <2>3. ~ overlapped => \A j \in Installs : install[j] \notin {"check", "clear", "rename"}
    BY <1>t, <2>1 DEF UsesTmp
  <2> QED
    BY <1>t, <2>1, <2>2, <2>3 DEF InstallInv, UsesTmp, InstalledIsWhole, isSkillInstalled
<1>5. ASSUME NEW i \in Installs, Unpacked(i) PROVE InstallInv'
  <2>1. /\ install[i] = "unpack" /\ install' = [install EXCEPT ![i] = "check"] /\ tmpDir \in Dirs
        /\ skillDir' = skillDir /\ overlapped' = overlapped
        /\ tmpDir["rest"] = tmpDir["SKILL.md"]
        /\ tmpDir' = [tmpDir EXCEPT !["tarball"] = "none"]
    BY <1>5, <1>t DEF Unpacked, Move
  <2>2. Whole(tmpDir')
    BY <2>1 DEF Whole, Dirs, Files
  <2> QED
    BY <1>1, <2>1, <2>2 DEF UsesTmp, Whole
<1>6. ASSUME NEW i \in Installs, SkipRename(i) \/ CleanUp(i) PROVE InstallInv'
  BY <1>1, <1>6 DEF SkipRename, CleanUp, Move, UsesTmp
(* A step of one call that changes skillDir.                               *)
<1>7. ASSUME NEW i \in Installs, UsesTmp(i), NEW next \in {"rename", "done"}, install' = [install EXCEPT ![i] = next],
             overlapped' = overlapped, skillDir' \in Dirs \cup {NoDir}, tmpDir' \in Dirs \cup {NoDir},
             next = "rename" => tmpDir' = tmpDir /\ install[i] = "clear",
             skillDir' = NoDir \/ overlapped \/ Whole(skillDir')
      PROVE  InstallInv'
  <2>1. install' \in [Installs -> Pcs] /\ install'[i] = next /\ \A j \in Installs : j # i => install'[j] = install[j]
    BY <1>t, <1>7
  <2>2. ~ overlapped => \A j, k \in Installs : UsesTmp(j)' /\ UsesTmp(k)' => j = k
    BY <1>t, <1>7, <2>1 DEF UsesTmp
  <2>3. ASSUME ~ overlapped, NEW j \in Installs, install'[j] \in {"check", "clear", "rename"}
        PROVE  Whole(tmpDir')
    BY <1>t, <1>7, <2>1, <2>3 DEF UsesTmp
  <2>4. InstalledIsWhole'
    BY <1>7 DEF InstalledIsWhole, isSkillInstalled, Whole
  <2> QED
    BY <1>t, <1>7, <2>1, <2>2, <2>3, <2>4 DEF InstallInv, Whole
<1>8. ASSUME NEW i \in Installs, ClearSkillDir(i) PROVE InstallInv'
  BY <1>7, <1>8, <1>t DEF ClearSkillDir, Move, UsesTmp
<1>9. ASSUME NEW i \in Installs, Rename(i) PROVE InstallInv'
  <2>1. CASE tmpDir # NoDir /\ skillDir \in {NoDir, Empty}
    <3>1. /\ install[i] = "rename" /\ install' = [install EXCEPT ![i] = "done"]
          /\ skillDir' = tmpDir /\ tmpDir' = NoDir /\ overlapped' = overlapped
      BY <1>9, <2>1 DEF Rename, Move
    <3>2. ~ overlapped => Whole(skillDir')
      BY <1>t, <3>1 DEF UsesTmp
    <3> QED
      BY <1>7, <1>t, <3>1, <3>2 DEF UsesTmp
  <2>2. CASE ~ (tmpDir # NoDir /\ skillDir \in {NoDir, Empty})
    BY <1>1, <1>9, <1>t, <2>2 DEF Rename, Move, UsesTmp
  <2> QED
    BY <2>1, <2>2
<1>10. CASE UNCHANGED installVars
  BY <1>10, <1>t DEF installVars, InstallInv, UsesTmp, InstalledIsWhole, isSkillInstalled
<1> QED
  BY <1>2, <1>3, <1>4, <1>5, <1>6, <1>8, <1>9, <1>10 DEF InstallNext

(* What counts as installed is all of one artifact.                        *)
THEOREM InstalledAlwaysWhole == InstallSpec => []InstalledIsWhole
<1>1. InstallInv => InstalledIsWhole
  BY DEF InstallInv
<1> QED
  BY <1>1, InstallInitInv, InstallStep, PTL DEF InstallSpec

-----------------------------------------------------------------------------
ServerLines == [id: Nat, call: McpCalls]

(* Numbers are given once, and whoever waits under one sent the request    *)
(* that has it.                                                            *)
NumbersMatch ==
  /\ DOMAIN pending \subseteq 0 .. nextId - 1
  /\ \A r \in requests \cup replies :
       r.id < nextId /\ (r.id \in DOMAIN pending => pending[r.id] = r.call)

(* The client knows of a server that runs, and lets go of it only to stop it. *)
ServerKnown ==
  /\ child = "running" => process
  /\ loading = "idle" => ~ disposed /\ ~ active
  /\ loading \in {"listing", "loaded"} /\ ~ active => child # "running"

McpInv ==
  /\ nextId \in Nat
  /\ pending \in [DOMAIN pending -> McpCalls]
  /\ requests \subseteq ServerLines /\ replies \subseteq ServerLines
  /\ DOMAIN reply = McpCalls
  /\ process \in BOOLEAN /\ active \in BOOLEAN /\ disposed \in BOOLEAN
  /\ loading \in {"idle", "connecting", "listing", "loaded", "failed"}
  /\ NumbersMatch /\ ServerKnown /\ OwnAnswer /\ StoppedAfterUse

LEMMA McpInitInv == McpInit => McpInv
<1> SUFFICES ASSUME McpInit PROVE McpInv
  OBVIOUS
<1>1. DOMAIN pending = {} /\ pending \in [DOMAIN pending -> McpCalls]
  BY DEF McpInit
<1>2. OwnAnswer /\ DOMAIN reply = McpCalls
  BY DEF McpInit, OwnAnswer, Untold
<1>3. /\ nextId = 1 /\ requests = {} /\ replies = {} /\ process = FALSE /\ active = FALSE /\ disposed = FALSE
      /\ loading = "idle" /\ child = "none"
  BY DEF McpInit
<1> QED
  BY <1>1, <1>2, <1>3 DEF McpInv, NumbersMatch, ServerKnown, StoppedAfterUse

(* What the answers of calls are is left alone by who only fails them.     *)
LEMMA SendKeeps ==
  ASSUME McpInv, NEW c \in McpCalls, SendRequest(c), replies' = replies
  PROVE  /\ nextId' \in Nat /\ pending' \in [DOMAIN pending' -> McpCalls]
         /\ requests' \subseteq ServerLines /\ DOMAIN reply' = McpCalls
         /\ NumbersMatch' /\ OwnAnswer'
<1> DEFINE line == [id |-> nextId, call |-> c]
<1> USE DEF McpInv
<1>1. /\ nextId' = nextId + 1 /\ requests' \subseteq requests \cup {line}
      /\ pending' = [i \in DOMAIN pending \cup {nextId} |-> IF i = nextId THEN c ELSE pending[i]]
      /\ reply' = [reply EXCEPT ![c].state = "waiting"]
  BY DEF SendRequest
<1>2. line \in ServerLines /\ line.id = nextId /\ line.call = c
  BY DEF ServerLines
<1>3. DOMAIN reply' = McpCalls /\ OwnAnswer'
  BY <1>1 DEF OwnAnswer
<1>4. /\ DOMAIN pending' = DOMAIN pending \cup {nextId} /\ pending'[nextId] = c
      /\ \A i \in DOMAIN pending : i # nextId => pending'[i] = pending[i]
      /\ pending' \in [DOMAIN pending' -> McpCalls]
  BY <1>1
<1> HIDE DEF line
<1>5. nextId \notin DOMAIN pending /\ \A r \in requests \cup replies : r.id < nextId /\ r.id \in Nat
  BY DEF NumbersMatch, ServerLines
<1>6. DOMAIN pending' \subseteq 0 .. nextId' - 1
  BY <1>1, <1>4 DEF NumbersMatch
<1>7. ASSUME NEW r \in requests' \cup replies'
      PROVE  r.id < nextId' /\ (r.id \in DOMAIN pending' => pending'[r.id] = r.call)
  <2>1. CASE r = line
    BY <1>1, <1>2, <1>4, <2>1
  <2>2. CASE r \in requests \cup replies
    <3>1. r.id < nextId /\ r.id \in Nat /\ r.id # nextId /\ (r.id \in DOMAIN pending => pending[r.id] = r.call)
      BY <1>5, <2>2 DEF NumbersMatch
    <3> QED
      BY <1>1, <1>4, <3>1
  <2> QED
    BY <1>1, <2>1, <2>2
<1>8. nextId' \in Nat /\ requests' \subseteq ServerLines
  BY <1>1, <1>2
<1>9. NumbersMatch'
  BY <1>6, <1>7 DEF NumbersMatch
<1> QED
  BY <1>3, <1>4, <1>8, <1>9

LEMMA RejectKeeps ==
  ASSUME McpInv, RejectAll, UNCHANGED <<nextId, requests, replies>>
  PROVE  /\ nextId' \in Nat /\ pending' \in [DOMAIN pending' -> McpCalls]
         /\ DOMAIN reply' = McpCalls
         /\ NumbersMatch' /\ OwnAnswer'
<1> USE DEF McpInv
<1>1. pending' = <<>> /\ DOMAIN pending' = {}
  BY DEF RejectAll
<1>2. /\ DOMAIN reply' = McpCalls
      /\ \A c \in McpCalls : reply'[c] = IF Unanswered(c) THEN [reply[c] EXCEPT !.state = "failed"] ELSE reply[c]
  BY DEF RejectAll
<1>3. OwnAnswer'
  <2>1. ASSUME NEW c \in McpCalls PROVE reply'[c].of = reply[c].of
    <3>1. [reply[c] EXCEPT !.state = "failed"].of = reply[c].of
      OBVIOUS
    <3> QED
      BY <1>2, <3>1, Zenon
  <2> QED
    BY <2>1 DEF OwnAnswer
<1>4. NumbersMatch'
  BY <1>1 DEF NumbersMatch
<1> QED
  BY <1>1, <1>2, <1>3, <1>4

LEMMA DisconnectKeeps ==
  ASSUME McpInv, DisconnectClient
  PROVE  /\ nextId' \in Nat /\ pending' \in [DOMAIN pending' -> McpCalls]
         /\ requests' \subseteq ServerLines /\ replies' \subseteq ServerLines /\ DOMAIN reply' = McpCalls
         /\ NumbersMatch' /\ OwnAnswer' /\ process' \in BOOLEAN /\ child' # "running"
<1>1. /\ nextId' \in Nat /\ pending' \in [DOMAIN pending' -> McpCalls]
      /\ DOMAIN reply' = McpCalls /\ NumbersMatch' /\ OwnAnswer'
  BY RejectKeeps DEF DisconnectClient
<1>2. process' \in BOOLEAN /\ child' # "running"
  BY DEF DisconnectClient, McpInv, ServerKnown
<1> QED
  BY <1>1, <1>2 DEF DisconnectClient, McpInv

LEMMA McpStep == McpInv /\ [McpNext]_mcpVars => McpInv'
<1> SUFFICES ASSUME McpInv, [McpNext]_mcpVars PROVE McpInv'
  OBVIOUS
<1> USE DEF McpInv
<1>1. ASSUME Spawn PROVE McpInv'
  <2> DEFINE line == [id |-> nextId, call |-> "initialize"]
  <2>1. /\ loading = "idle" /\ loading' = "connecting" /\ process' = TRUE
        /\ nextId' = nextId + 1 /\ pending' = [i \in {nextId} |-> "initialize"]
        /\ requests' = {line} \/ requests' = requests
        /\ reply' = [reply EXCEPT !["initialize"].state = "waiting"]
        /\ replies' = replies /\ active' = active /\ disposed' = disposed
    BY <1>1 DEF Spawn
  <2>2. line \in ServerLines /\ line.id = nextId /\ line.call = "initialize" /\ "initialize" \in McpCalls
    BY DEF ServerLines, McpCalls
  <2>3. DOMAIN pending' = {nextId} /\ pending'[nextId] = "initialize" /\ pending' \in [DOMAIN pending' -> McpCalls]
    BY <2>1, <2>2
  <2> HIDE DEF line
  <2>4. nextId' \in Nat /\ requests' \subseteq ServerLines
    BY <2>1, <2>2
  <2>5. DOMAIN reply' = McpCalls /\ OwnAnswer'
    BY <2>1, <2>2 DEF OwnAnswer
  <2>6. ASSUME NEW r \in requests' \cup replies'
        PROVE  r.id < nextId' /\ (r.id \in DOMAIN pending' => pending'[r.id] = r.call)
    <3>1. CASE r = line
      BY <2>1, <2>2, <2>3, <3>1
    <3>2. CASE r \in requests \cup replies
      <4>1. r.id \in Nat /\ r.id < nextId
        BY <3>2 DEF NumbersMatch, ServerLines
      <4> QED
        BY <2>1, <2>3, <4>1
    <3> QED
      BY <2>1, <3>1, <3>2
  <2>7. DOMAIN pending' \subseteq 0 .. nextId' - 1
    BY <2>1, <2>3
  <2>8. NumbersMatch'
    BY <2>6, <2>7 DEF NumbersMatch
  <2>9. ServerKnown' /\ StoppedAfterUse'
    BY <2>1 DEF ServerKnown, StoppedAfterUse
  <2> QED
    BY <2>1, <2>3, <2>4, <2>5, <2>8, <2>9
<1>2. ASSUME Initialized PROVE McpInv'
  <2>1. /\ loading = "connecting" /\ loading' = "listing" /\ active' = TRUE /\ SendRequest("list")
        /\ child' = child /\ process' = process /\ replies' = replies /\ disposed' = disposed
    BY <1>2 DEF Initialized
  <2>2. "list" \in McpCalls
    BY DEF McpCalls
  <2>3. /\ nextId' \in Nat /\ pending' \in [DOMAIN pending' -> McpCalls]
        /\ requests' \subseteq ServerLines /\ DOMAIN reply' = McpCalls
        /\ NumbersMatch' /\ OwnAnswer'
    BY <2>1, <2>2, SendKeeps
  <2>4. ServerKnown' /\ StoppedAfterUse'
    BY <2>1 DEF ServerKnown, StoppedAfterUse
  <2> QED
    BY <2>1, <2>3, <2>4
<1>3. ASSUME Listed PROVE McpInv'
  <2>1. ServerKnown' /\ StoppedAfterUse'
    BY <1>3 DEF Listed, ServerKnown, StoppedAfterUse
  <2> QED
    BY <1>3, <2>1 DEF Listed, NumbersMatch, OwnAnswer
<1>4. ASSUME LoadFails PROVE McpInv'
  <2>1. loading \in {"connecting", "listing"} /\ loading' = "failed" /\ DisconnectClient
        /\ active' = active /\ disposed' = disposed
    BY <1>4 DEF LoadFails, Broken
  <2>2. ServerKnown' /\ StoppedAfterUse'
    BY <2>1, DisconnectKeeps DEF ServerKnown, StoppedAfterUse
  <2> QED
    BY <2>1, <2>2, DisconnectKeeps
<1>5. ASSUME Dispose PROVE McpInv'
  <2>1. /\ loading # "idle" /\ loading' = loading /\ active' = FALSE
        /\ disposed' = (disposed \/ loading \in {"loaded", "failed"})
    BY <1>5 DEF Dispose
  <2>2. disposed' \in BOOLEAN /\ (disposed' => disposed \/ loading \in {"loaded", "failed"})
    BY <2>1
  <2>3. CASE active
    <3>1. DisconnectClient
      BY <1>5, <2>3 DEF Dispose
    <3>2. ServerKnown' /\ StoppedAfterUse'
      BY <2>1, <3>1, DisconnectKeeps DEF ServerKnown, StoppedAfterUse
    <3> QED
      BY <2>1, <2>2, <3>1, <3>2, DisconnectKeeps
  <2>4. CASE ~ active
    <3>1. UNCHANGED <<child, process, nextId, pending, requests, replies, reply, host>>
      BY <1>5, <2>4 DEF Dispose
    <3>2. NumbersMatch' /\ OwnAnswer'
      BY <3>1 DEF NumbersMatch, OwnAnswer
    <3>3. ServerKnown'
      BY <2>1, <2>4, <3>1 DEF ServerKnown
    <3>4. StoppedAfterUse'
      BY <2>1, <2>2, <2>4, <3>1 DEF ServerKnown, StoppedAfterUse
    <3> QED
      BY <2>1, <2>2, <3>1, <3>2, <3>3, <3>4
  <2> QED
    BY <2>3, <2>4
<1>6. ASSUME NEW c \in ToolCalls, CallTool(c) PROVE McpInv'
  <2>1. SendRequest(c) /\ UNCHANGED <<loading, child, process, replies, active, disposed>> /\ c \in McpCalls
    BY <1>6 DEF CallTool, McpCalls
  <2>2. /\ nextId' \in Nat /\ pending' \in [DOMAIN pending' -> McpCalls]
        /\ requests' \subseteq ServerLines /\ DOMAIN reply' = McpCalls
        /\ NumbersMatch' /\ OwnAnswer'
    BY <2>1, SendKeeps
  <2>3. ServerKnown' /\ StoppedAfterUse'
    BY <2>1 DEF ServerKnown, StoppedAfterUse
  <2> QED
    BY <2>1, <2>2, <2>3
<1>7. ASSUME Serve PROVE McpInv'
  <2>1. /\ requests' \cup replies' \subseteq requests \cup replies
        /\ UNCHANGED <<loading, child, process, nextId, pending, reply, active, disposed>>
    BY <1>7 DEF Serve
  <2>2. NumbersMatch'
    BY <2>1 DEF NumbersMatch
  <2>3. OwnAnswer' /\ ServerKnown' /\ StoppedAfterUse'
    BY <2>1 DEF OwnAnswer, ServerKnown, StoppedAfterUse
  <2> QED
    BY <2>1, <2>2, <2>3
<1>8. ASSUME HandleResponse PROVE McpInv'
  <2>1. UNCHANGED <<loading, child, process, nextId, requests, active, disposed>>
    BY <1>8 DEF HandleResponse
  <2>2. PICK r \in replies :
          /\ replies' = replies \ {r}
          /\ IF r.id \in DOMAIN pending
             THEN /\ pending' = [i \in DOMAIN pending \ {r.id} |-> pending[i]]
                  /\ \E state \in {"ok", "failed"} :
                       reply' = [reply EXCEPT ![pending[r.id]] = [state |-> state, of |-> r.call]]
             ELSE UNCHANGED <<pending, reply>>
    BY <1>8 DEF HandleResponse
  <2>3. ServerKnown' /\ StoppedAfterUse'
    BY <2>1 DEF ServerKnown, StoppedAfterUse
  <2>4. CASE r.id \in DOMAIN pending
    <3>1. PICK state \in {"ok", "failed"} : reply' = [reply EXCEPT ![pending[r.id]] = [state |-> state, of |-> r.call]]
      BY <2>2, <2>4
    <3>2. pending[r.id] = r.call
      BY <2>4 DEF NumbersMatch
    <3>3. DOMAIN reply' = McpCalls /\ OwnAnswer'
      BY <3>1, <3>2 DEF OwnAnswer
    <3>4. /\ DOMAIN pending' \subseteq DOMAIN pending /\ \A i \in DOMAIN pending' : pending'[i] = pending[i]
          /\ pending' \in [DOMAIN pending' -> McpCalls]
      BY <2>2, <2>4
    <3>5. NumbersMatch'
      BY <2>1, <2>2, <3>4 DEF NumbersMatch
    <3> QED
      BY <2>1, <2>2, <2>3, <3>3, <3>4, <3>5
  <2>5. CASE r.id \notin DOMAIN pending
    <3>1. pending' = pending /\ reply' = reply
      BY <2>2, <2>5
    <3>2. NumbersMatch' /\ OwnAnswer'
      BY <2>1, <2>2, <3>1 DEF NumbersMatch, OwnAnswer
    <3> QED
      BY <2>1, <2>2, <2>3, <3>1, <3>2
  <2> QED
    BY <2>4, <2>5
<1>9. ASSUME NEW c \in McpCalls, RequestTimesOut(c) PROVE McpInv'
  <2>1. UNCHANGED <<loading, child, process, nextId, requests, replies, active, disposed>>
        /\ reply' = [reply EXCEPT ![c].state = "failed"]
    BY <1>9 DEF RequestTimesOut
  <2>2. PICK id \in DOMAIN pending : pending' = [i \in DOMAIN pending \ {id} |-> pending[i]]
    BY <1>9 DEF RequestTimesOut
  <2>3. DOMAIN reply' = McpCalls /\ OwnAnswer'
    BY <2>1 DEF OwnAnswer
  <2>4. /\ DOMAIN pending' \subseteq DOMAIN pending /\ \A i \in DOMAIN pending' : pending'[i] = pending[i]
        /\ pending' \in [DOMAIN pending' -> McpCalls]
    BY <2>2
  <2>5. NumbersMatch'
    BY <2>1, <2>4 DEF NumbersMatch
  <2>6. ServerKnown' /\ StoppedAfterUse'
    BY <2>1 DEF ServerKnown, StoppedAfterUse
  <2> QED
    BY <2>1, <2>3, <2>4, <2>5, <2>6
<1>10. ASSUME ServerExits PROVE McpInv'
  <2>1. /\ child' = "exited" /\ requests' = {}
        /\ UNCHANGED <<loading, process, nextId, pending, replies, reply, active, disposed>>
    BY <1>10 DEF ServerExits
  <2>2. NumbersMatch' /\ OwnAnswer' /\ ServerKnown' /\ StoppedAfterUse'
    BY <2>1 DEF NumbersMatch, OwnAnswer, ServerKnown, StoppedAfterUse
  <2> QED
    BY <2>1, <2>2
<1>11. ASSUME HandleExit PROVE McpInv'
  <2>1. /\ child' = "reaped" /\ process' = FALSE /\ RejectAll
        /\ UNCHANGED <<loading, nextId, requests, replies, active, disposed>>
    BY <1>11 DEF HandleExit
  <2>2. /\ nextId' \in Nat /\ pending' \in [DOMAIN pending' -> McpCalls]
        /\ DOMAIN reply' = McpCalls /\ NumbersMatch' /\ OwnAnswer'
    BY <2>1, RejectKeeps
  <2>3. ServerKnown' /\ StoppedAfterUse'
    BY <2>1 DEF ServerKnown, StoppedAfterUse
  <2> QED
    BY <2>1, <2>2, <2>3
<1>12. CASE UNCHANGED mcpVars
  BY <1>12 DEF mcpVars, NumbersMatch, OwnAnswer, ServerKnown, StoppedAfterUse
<1> QED
  BY <1>1, <1>2, <1>3, <1>4, <1>5, <1>6, <1>7, <1>8, <1>9, <1>10, <1>11, <1>12 DEF McpNext, LoadStep

(* A call of a tool is given its own answer, and the server is stopped.    *)
THEOREM ToolServerSound == McpSpec => [](OwnAnswer /\ StoppedAfterUse)
<1>1. McpInv => OwnAnswer /\ StoppedAfterUse
  BY DEF McpInv
<1> QED
  BY <1>1, McpInitInv, McpStep, PTL DEF McpSpec

-----------------------------------------------------------------------------
(* The pool of sandboxes (SandboxPool). *)

Entry == [id: Nat, inUse: BOOLEAN]

PoolTyped ==
  /\ pool \in Seq(Entry) /\ created \in Nat
  /\ recycle \in [Recycles -> [at: Nat, destroys: Nat]]
  /\ sandboxOf \in [Holders -> Nat]
  /\ crossed \in BOOLEAN

(* An id is given once, and whoever has a sandbox has it alone and in use. *)
IdsApart ==
  /\ \A i \in 1 .. Len(pool) : pool[i].id \in 1 .. created
  /\ \A i, j \in 1 .. Len(pool) : pool[i].id = pool[j].id => i = j
  /\ \A a \in Holders : sandboxOf[a] <= created
  /\ \A a \in Holders, i \in 1 .. Len(pool) : pool[i].id = sandboxOf[a] => pool[i].inUse
  /\ \A a, b \in Holders : sandboxOf[a] # 0 /\ sandboxOf[a] = sandboxOf[b] => a = b

(* What a recycling destroys is still where its index points, unless calls *)
(* have crossed.                                                           *)
IndexHolds ==
  /\ \A r \in Recycles : recycle[r] # NoRecycle => recycle[r].at # 0
  /\ ~ crossed =>
       /\ \A r, o \in Recycles : recycle[r] # NoRecycle /\ recycle[o] # NoRecycle => r = o
       /\ \A r \in Recycles : recycle[r] # NoRecycle =>
            recycle[r].at <= Len(pool) /\ pool[recycle[r].at].id = recycle[r].destroys

PoolIds == {pool[i].id : i \in 1 .. Len(pool)}

PoolInv == PoolTyped /\ IdsApart /\ IndexHolds /\ (~ crossed => alive = PoolIds)

LEMMA PoolInitInv == PoolInit => PoolInv
<1> SUFFICES ASSUME PoolInit PROVE PoolInv
  OBVIOUS
<1>1. /\ pool = <<>> /\ Len(pool) = 0 /\ alive = {} /\ created = 0 /\ crossed = FALSE
      /\ pool \in Seq(Entry)
  BY EmptySeq DEF PoolInit
<1>2. /\ recycle \in [Recycles -> [at: Nat, destroys: Nat]] /\ \A r \in Recycles : recycle[r] = NoRecycle
      /\ sandboxOf \in [Holders -> Nat] /\ \A a \in Holders : sandboxOf[a] = 0
  BY DEF PoolInit, NoRecycle
<1>3. PoolTyped
  BY <1>1, <1>2 DEF PoolTyped
<1>4. IdsApart /\ IndexHolds
  BY <1>1, <1>2 DEF IdsApart, IndexHolds
<1>5. PoolIds = {}
  BY <1>1 DEF PoolIds
<1> QED
  BY <1>1, <1>3, <1>4, <1>5 DEF PoolInv

(* A pool that changed in no more than who uses what.                      *)
LEMMA SameIds ==
  ASSUME PoolInv, pool' \in Seq(Entry), Len(pool') = Len(pool),
         \A i \in 1 .. Len(pool) : pool'[i].id = pool[i].id
  PROVE  PoolIds' = PoolIds
  BY DEF PoolIds

(* The pool without its element i.                                         *)
LEMMA SpliceDrops ==
  ASSUME NEW p \in Seq(Entry), NEW i \in 1 .. Len(p)
  PROVE  /\ Spliced(p, i) \in Seq(Entry) /\ Len(Spliced(p, i)) = Len(p) - 1
         /\ \A k \in 1 .. Len(p) - 1 : Spliced(p, i)[k] = IF k < i THEN p[k] ELSE p[k + 1]
<1> DEFINE front == SubSeq(p, 1, i - 1)
           back == SubSeq(p, i + 1, Len(p))
<1>1. Len(p) \in Nat /\ \A k \in 1 .. Len(p) : p[k] \in Entry
  BY LenProperties, ElementOfSeq
<1>2. /\ front \in Seq(Entry) /\ Len(front) = i - 1
      /\ \A k \in 1 .. i - 1 : front[k] = p[k]
  <2>1. 1 \in Int /\ i - 1 \in Int /\ \A k \in 1 .. i - 1 : p[k] \in Entry
    BY <1>1
  <2>2. /\ front \in Seq(Entry) /\ Len(front) = IF 1 <= i - 1 THEN i - 1 - 1 + 1 ELSE 0
        /\ \A k \in 1 .. i - 1 - 1 + 1 : front[k] = p[1 + k - 1]
    BY <2>1, SubSeqProperties
  <2> HIDE DEF front
  <2> QED
    BY <1>1, <2>2
<1>3. /\ back \in Seq(Entry) /\ Len(back) = Len(p) - i
      /\ \A k \in 1 .. Len(p) - i : back[k] = p[i + k]
  <2>1. i + 1 \in Int /\ Len(p) \in Int /\ \A k \in i + 1 .. Len(p) : p[k] \in Entry
    BY <1>1
  <2>2. /\ back \in Seq(Entry) /\ Len(back) = IF i + 1 <= Len(p) THEN Len(p) - (i + 1) + 1 ELSE 0
        /\ \A k \in 1 .. Len(p) - (i + 1) + 1 : back[k] = p[i + 1 + k - 1]
    BY <2>1, SubSeqProperties
  <2> HIDE DEF back
  <2> QED
    BY <1>1, <2>2
<1> HIDE DEF front, back
<1>4. /\ front \o back \in Seq(Entry) /\ Len(front \o back) = Len(front) + Len(back)
      /\ \A k \in 1 .. Len(front) + Len(back) : (front \o back)[k] =
           IF k <= Len(front) THEN front[k] ELSE back[k - Len(front)]
  BY <1>2, <1>3, ConcatProperties
<1>5. Spliced(p, i) = front \o back
  BY DEF Spliced, front, back
<1>6. Len(front) + Len(back) = Len(p) - 1
  BY <1>1, <1>2, <1>3
<1>7. ASSUME NEW k \in 1 .. Len(p) - 1
      PROVE  Spliced(p, i)[k] = IF k < i THEN p[k] ELSE p[k + 1]
  <2>0. Spliced(p, i)[k] = IF k <= i - 1 THEN front[k] ELSE back[k - (i - 1)]
    BY <1>2, <1>4, <1>5, <1>6
  <2>1. CASE k < i
    <3>1. k \in 1 .. i - 1 /\ k <= i - 1
      BY <1>1, <2>1
    <3> QED
      BY <1>2, <2>0, <2>1, <3>1
  <2>2. CASE ~ (k < i)
    <3>1. k - (i - 1) \in 1 .. Len(p) - i /\ i + (k - (i - 1)) = k + 1 /\ ~ (k <= i - 1)
      BY <1>1, <2>2
    <3>2. back[k - (i - 1)] = p[k + 1]
      BY <1>3, <3>1
    <3> QED
      BY <2>0, <2>2, <3>1, <3>2
  <2> QED
    BY <2>1, <2>2
<1> QED
  BY <1>4, <1>5, <1>6, <1>7

(* Where a scan of the pool p goes.                                        *)
LEMMA ScanFinds ==
  ASSUME PoolInv, NEW r \in Recycles, NEW p \in Seq(Entry), NEW i \in Nat, Scan(r, i, p)
  PROVE  /\ recycle' \in [Recycles -> [at: Nat, destroys: Nat]]
         /\ \A o \in Recycles : o # r => recycle'[o] = recycle[o]
         /\ recycle'[r] # NoRecycle =>
              /\ recycle'[r].at \in 1 .. Len(p) /\ recycle'[r].at <= i
              /\ p[recycle'[r].at].id = recycle'[r].destroys
<1>1. PICK j \in 0 .. i :
        /\ i > Len(p) => j = 0
        /\ recycle' = [recycle EXCEPT ![r] = IF j = 0 THEN NoRecycle ELSE [at |-> j, destroys |-> p[j].id]]
  BY DEF Scan
<1>2. Len(p) \in Nat
  BY LenProperties
<1>3. recycle \in [Recycles -> [at: Nat, destroys: Nat]]
  BY DEF PoolInv, PoolTyped
<1>4. CASE j = 0
  BY <1>1, <1>3, <1>4 DEF NoRecycle
<1>5. CASE j # 0
  <2>1. j \in 1 .. Len(p)
    BY <1>1, <1>2, <1>5
  <2>2. p[j] \in Entry
    BY <2>1, ElementOfSeq
  <2>3. recycle' = [recycle EXCEPT ![r] = [at |-> j, destroys |-> p[j].id]]
    BY <1>1, <1>5
  <2>4. p[j].id \in Nat
    BY <2>2 DEF Entry
  <2>5. recycle'[r] = [at |-> j, destroys |-> p[j].id]
    BY <1>3, <2>3
  <2> QED
    BY <1>3, <2>1, <2>3, <2>4, <2>5
<1> QED
  BY <1>4, <1>5

LEMMA PoolStep == PoolInv /\ [PoolNext]_poolVars => PoolInv'
<1> SUFFICES ASSUME PoolInv, [PoolNext]_poolVars PROVE PoolInv'
  OBVIOUS
<1>t. /\ pool \in Seq(Entry) /\ created \in Nat
      /\ recycle \in [Recycles -> [at: Nat, destroys: Nat]]
      /\ sandboxOf \in [Holders -> Nat] /\ crossed \in BOOLEAN
      /\ Len(pool) \in Nat /\ DOMAIN pool = 1 .. Len(pool)
      /\ \A i \in 1 .. Len(pool) : pool[i] \in Entry
  <2>1. PoolTyped
    BY DEF PoolInv
  <2> QED
    BY <2>1, LenProperties, ElementOfSeq DEF PoolTyped
<1>m. Available \subseteq 1 .. Len(pool) /\ Available \subseteq Nat
  BY <1>t DEF Available
<1>1. ASSUME Warmup PROVE PoolInv'
  BY <1>1 DEF Warmup, PoolInv, PoolTyped, IdsApart, IndexHolds, PoolIds
<1>2. ASSUME NEW ok \in BOOLEAN, CreatePooled(ok) PROVE PoolInv'
  <2>1. CASE ~ ok
    <3>1. /\ pool' = pool /\ alive' = alive /\ created' = created /\ recycle' = recycle
          /\ sandboxOf' = sandboxOf /\ crossed' = crossed
      BY <1>2, <2>1 DEF CreatePooled
    <3>2. PoolTyped' /\ IdsApart'
      BY <3>1 DEF PoolInv, PoolTyped, IdsApart
    <3>3. IndexHolds'
      BY <3>1 DEF PoolInv, IndexHolds
    <3>4. PoolIds' = PoolIds
      BY <3>1 DEF PoolIds
    <3> QED
      BY <3>1, <3>2, <3>3, <3>4 DEF PoolInv
  <2>2. CASE ok
    <3> DEFINE n == created + 1
               new == [id |-> n, inUse |-> FALSE]
    <3>1. /\ created' = n /\ alive' = alive \cup {n} /\ pool' = Append(pool, new)
          /\ UNCHANGED <<recycle, sandboxOf, crossed>>
      BY <1>2, <2>2 DEF CreatePooled
    <3>2. new \in Entry /\ new.id = n /\ n \in Nat /\ n = created + 1
      BY <1>t DEF Entry
    <3> HIDE DEF new, n
    <3>3. /\ pool' \in Seq(Entry) /\ Len(pool') = Len(pool) + 1 /\ pool'[Len(pool) + 1] = new
          /\ \A i \in 1 .. Len(pool) : pool'[i] = pool[i]
      BY <1>t, <3>1, <3>2, AppendProperties
    <3>4. PoolTyped'
      BY <1>t, <3>1, <3>2, <3>3 DEF PoolTyped
    <3>5. \A i \in 1 .. Len(pool') : i = Len(pool) + 1 \/ i \in 1 .. Len(pool)
      BY <1>t, <3>3
    <3>6. IdsApart'
      <4>1. /\ \A i \in 1 .. Len(pool) : pool[i].id \in 1 .. created
            /\ \A i, j \in 1 .. Len(pool) : pool[i].id = pool[j].id => i = j
            /\ \A a \in Holders : sandboxOf[a] <= created
            /\ \A a \in Holders, i \in 1 .. Len(pool) : pool[i].id = sandboxOf[a] => pool[i].inUse
            /\ \A a, b \in Holders : sandboxOf[a] # 0 /\ sandboxOf[a] = sandboxOf[b] => a = b
        BY DEF PoolInv, IdsApart
      <4>2. \A i \in 1 .. Len(pool') : pool'[i].id \in 1 .. created'
        BY <1>t, <3>1, <3>2, <3>3, <3>5, <4>1
      <4>3. \A i, j \in 1 .. Len(pool') : pool'[i].id = pool'[j].id => i = j
        <5>1. \A i \in 1 .. Len(pool) : pool[i].id # n
          BY <1>t, <3>2, <4>1
        <5> QED
          BY <3>2, <3>3, <3>5, <4>1, <5>1
      <4>4. \A a \in Holders : sandboxOf'[a] <= created'
        BY <1>t, <3>1, <3>2, <4>1
      <4>5. \A a \in Holders, i \in 1 .. Len(pool') : pool'[i].id = sandboxOf'[a] => pool'[i].inUse
        <5>1. \A a \in Holders : sandboxOf[a] # n
          BY <1>t, <3>2, <4>1
        <5> QED
          BY <3>1, <3>2, <3>3, <3>5, <4>1, <5>1
      <4> QED
        BY <3>1, <4>1, <4>2, <4>3, <4>4, <4>5 DEF IdsApart
    <3>7. IndexHolds'
      <4>1. \A r \in Recycles : recycle[r].at # 0 /\ recycle[r].at <= Len(pool) =>
              recycle[r].at <= Len(pool') /\ pool'[recycle[r].at] = pool[recycle[r].at]
        <5> SUFFICES ASSUME NEW r \in Recycles, recycle[r].at # 0, recycle[r].at <= Len(pool)
                     PROVE  recycle[r].at <= Len(pool') /\ pool'[recycle[r].at] = pool[recycle[r].at]
          OBVIOUS
        <5>1. recycle[r].at \in 1 .. Len(pool)
          BY <1>t
        <5> QED
          BY <1>t, <3>3, <5>1
      <4> QED
        BY <3>1, <4>1 DEF PoolInv, IndexHolds
    <3>8. PoolIds' = PoolIds \cup {n}
      <4>1. PoolIds' \subseteq PoolIds \cup {n}
        BY <3>2, <3>3, <3>5 DEF PoolIds
      <4>2. n \in PoolIds'
        BY <1>t, <3>2, <3>3 DEF PoolIds
      <4>3. PoolIds \subseteq PoolIds'
        BY <1>t, <3>3 DEF PoolIds
      <4> QED
        BY <4>1, <4>2, <4>3
    <3> QED
      BY <3>1, <3>4, <3>6, <3>7, <3>8 DEF PoolInv
  <2> QED
    BY <2>1, <2>2
<1>3. ASSUME NEW a \in Holders, AcquireSandbox(a) PROVE PoolInv'
  <2>1. Oldest \in Available
    <3>1. \E i \in Available : \A j \in Available : i <= j
      BY <1>3, <1>m, LeastExists DEF AcquireSandbox
    <3> QED
      BY <3>1 DEF Oldest
  <2> DEFINE k == Oldest
  <2>2. /\ k \in 1 .. Len(pool) /\ ~ pool[k].inUse
        /\ pool' = [pool EXCEPT ![k].inUse = TRUE] /\ sandboxOf[a] = 0
        /\ sandboxOf' = [sandboxOf EXCEPT ![a] = pool[k].id]
        /\ UNCHANGED <<alive, created, recycle, crossed>>
    BY <1>3, <1>m, <2>1 DEF AcquireSandbox, Available
  <2> HIDE DEF k
  <2> DEFINE used == [pool[k] EXCEPT !.inUse = TRUE]
  <2>3. used \in Entry /\ used.id = pool[k].id /\ used.inUse /\ pool' = [pool EXCEPT ![k] = used]
    BY <1>t, <2>2 DEF Entry
  <2> HIDE DEF used
  <2>4. /\ pool' \in Seq(Entry) /\ Len(pool') = Len(pool)
        /\ \A i \in 1 .. Len(pool) : pool'[i] = IF i = k THEN used ELSE pool[i]
    <3>1. [pool EXCEPT ![k] = used] \in Seq(Entry) /\ Len([pool EXCEPT ![k] = used]) = Len(pool)
          /\ \A i \in 1 .. Len(pool) : [pool EXCEPT ![k] = used][i] = IF i = k THEN used ELSE pool[i]
      BY <1>t, <2>2, <2>3, ExceptSeq
    <3> QED
      BY <2>3, <3>1
  <2>5. \A i \in 1 .. Len(pool) : pool'[i].id = pool[i].id
    BY <2>3, <2>4
  <2>6. sandboxOf' \in [Holders -> Nat] /\ sandboxOf'[a] = pool[k].id
        /\ \A b \in Holders : b # a => sandboxOf'[b] = sandboxOf[b]
    BY <1>t, <2>2 DEF Entry
  <2>7. PoolTyped'
    BY <1>t, <2>2, <2>4, <2>6 DEF PoolTyped
  <2>8. IdsApart'
    <3>1. /\ \A i \in 1 .. Len(pool) : pool[i].id \in 1 .. created
          /\ \A i, j \in 1 .. Len(pool) : pool[i].id = pool[j].id => i = j
          /\ \A b \in Holders : sandboxOf[b] <= created
          /\ \A b \in Holders, i \in 1 .. Len(pool) : pool[i].id = sandboxOf[b] => pool[i].inUse
          /\ \A b, c \in Holders : sandboxOf[b] # 0 /\ sandboxOf[b] = sandboxOf[c] => b = c
      BY DEF PoolInv, IdsApart
    <3>2. \A b \in Holders : sandboxOf[b] # pool[k].id
      BY <2>2, <3>1
    <3>3. \A i \in 1 .. Len(pool') : pool'[i].id \in 1 .. created'
      BY <2>2, <2>4, <2>5, <3>1
    <3>4. \A i, j \in 1 .. Len(pool') : pool'[i].id = pool'[j].id => i = j
      BY <2>4, <2>5, <3>1
    <3>5. \A b \in Holders : sandboxOf'[b] <= created'
      BY <1>t, <2>2, <2>6, <3>1
    <3>6. ASSUME NEW b \in Holders, NEW i \in 1 .. Len(pool'), pool'[i].id = sandboxOf'[b]
          PROVE  pool'[i].inUse
      <4>1. CASE i = k
        BY <2>3, <2>4, <3>6, <4>1
      <4>2. CASE i # k
        <5>1. i \in 1 .. Len(pool) /\ pool'[i] = pool[i] /\ pool[i].id # pool[k].id
          BY <2>2, <2>4, <3>1, <4>2
        <5>2. b # a
          BY <2>6, <3>6, <5>1
        <5> QED
          BY <2>6, <3>1, <3>6, <5>1, <5>2
      <4> QED
        BY <4>1, <4>2
    <3>7. \A b, c \in Holders : sandboxOf'[b] # 0 /\ sandboxOf'[b] = sandboxOf'[c] => b = c
      BY <2>6, <3>1, <3>2
    <3> QED
      BY <3>3, <3>4, <3>5, <3>6, <3>7 DEF IdsApart
  <2>9. IndexHolds'
    <3>1. \A r \in Recycles : recycle[r].at # 0 /\ recycle[r].at <= Len(pool) =>
            pool'[recycle[r].at].id = pool[recycle[r].at].id
      <4> SUFFICES ASSUME NEW r \in Recycles, recycle[r].at # 0, recycle[r].at <= Len(pool)
                   PROVE  pool'[recycle[r].at].id = pool[recycle[r].at].id
        OBVIOUS
      <4>1. recycle[r].at \in 1 .. Len(pool)
        BY <1>t
      <4> QED
        BY <2>5, <4>1
    <3> QED
      BY <2>2, <2>4, <3>1 DEF PoolInv, IndexHolds
  <2>10. PoolIds' = PoolIds
    BY <2>4, <2>5, SameIds
  <2>11. ~ crossed' => alive' = PoolIds'
    BY <2>2, <2>10 DEF PoolInv
  <2> QED
    BY <2>7, <2>8, <2>9, <2>11 DEF PoolInv
<1>4. ASSUME NEW a \in Holders, ReleaseSandbox(a) PROVE PoolInv'
  <2>1. /\ pool' = [i \in 1 .. Len(pool) |->
              IF pool[i].id = sandboxOf[a] THEN [pool[i] EXCEPT !.inUse = FALSE] ELSE pool[i]]
        /\ sandboxOf' = [sandboxOf EXCEPT ![a] = 0] /\ sandboxOf[a] # 0
        /\ UNCHANGED <<alive, created, recycle, crossed>>
    BY <1>4, <1>t DEF ReleaseSandbox
  <2>2. ASSUME NEW i \in 1 .. Len(pool)
        PROVE  /\ pool'[i] \in Entry /\ pool'[i].id = pool[i].id
               /\ pool[i].id # sandboxOf[a] => pool'[i] = pool[i]
    <3>1. pool[i] \in Entry
      BY <1>t
    <3> DEFINE free == [pool[i] EXCEPT !.inUse = FALSE]
    <3>2. free \in Entry /\ free.id = pool[i].id
      BY <3>1 DEF Entry
    <3>3. pool'[i] = IF pool[i].id = sandboxOf[a] THEN free ELSE pool[i]
      BY <2>1
    <3> HIDE DEF free
    <3> QED
      BY <3>1, <3>2, <3>3
  <2>3. /\ pool' \in Seq(Entry) /\ Len(pool') = Len(pool)
    <3>1. pool' \in [1 .. Len(pool) -> Entry]
      BY <2>1, <2>2
    <3> QED
      BY <1>t, <3>1
  <2>4. sandboxOf' \in [Holders -> Nat] /\ sandboxOf'[a] = 0
        /\ \A b \in Holders : b # a => sandboxOf'[b] = sandboxOf[b]
    BY <1>t, <2>1
  <2>5. PoolTyped'
    BY <1>t, <2>1, <2>3, <2>4 DEF PoolTyped
  <2>6. IdsApart'
    <3>1. /\ \A i \in 1 .. Len(pool) : pool[i].id \in 1 .. created
          /\ \A i, j \in 1 .. Len(pool) : pool[i].id = pool[j].id => i = j
          /\ \A b \in Holders : sandboxOf[b] <= created
          /\ \A b \in Holders, i \in 1 .. Len(pool) : pool[i].id = sandboxOf[b] => pool[i].inUse
          /\ \A b, c \in Holders : sandboxOf[b] # 0 /\ sandboxOf[b] = sandboxOf[c] => b = c
      BY DEF PoolInv, IdsApart
    <3>2. \A i \in 1 .. Len(pool') : pool'[i].id \in 1 .. created'
      BY <2>1, <2>2, <2>3, <3>1
    <3>3. \A i, j \in 1 .. Len(pool') : pool'[i].id = pool'[j].id => i = j
      BY <2>2, <2>3, <3>1
    <3>4. \A b \in Holders : sandboxOf'[b] <= created'
      BY <1>t, <2>1, <2>4, <3>1
    <3>5. ASSUME NEW b \in Holders, NEW i \in 1 .. Len(pool'), pool'[i].id = sandboxOf'[b]
          PROVE  pool'[i].inUse
      <4>1. i \in 1 .. Len(pool) /\ pool'[i].id = pool[i].id /\ pool[i].id # 0
        BY <2>2, <2>3, <3>1
      <4>2. b # a
        BY <2>4, <3>5, <4>1
      <4>3. sandboxOf[b] = pool[i].id /\ sandboxOf[b] # sandboxOf[a]
        BY <2>4, <3>1, <3>5, <4>1, <4>2
      <4> QED
        BY <2>2, <3>1, <4>1, <4>3
    <3>6. \A b, c \in Holders : sandboxOf'[b] # 0 /\ sandboxOf'[b] = sandboxOf'[c] => b = c
      BY <2>4, <3>1
    <3> QED
      BY <3>2, <3>3, <3>4, <3>5, <3>6 DEF IdsApart
  <2>7. IndexHolds'
    <3>1. \A r \in Recycles : recycle[r].at # 0 /\ recycle[r].at <= Len(pool) =>
            pool'[recycle[r].at].id = pool[recycle[r].at].id
      <4> SUFFICES ASSUME NEW r \in Recycles, recycle[r].at # 0, recycle[r].at <= Len(pool)
                   PROVE  pool'[recycle[r].at].id = pool[recycle[r].at].id
        OBVIOUS
      <4>1. recycle[r].at \in 1 .. Len(pool)
        BY <1>t
      <4> QED
        BY <2>2, <4>1
    <3> QED
      BY <2>1, <2>3, <3>1 DEF PoolInv, IndexHolds
  <2>8. PoolIds' = PoolIds
    BY <2>2, <2>3, SameIds
  <2>9. ~ crossed' => alive' = PoolIds'
    BY <2>1, <2>8 DEF PoolInv
  <2> QED
    BY <2>5, <2>6, <2>7, <2>9 DEF PoolInv
<1>5. ASSUME NEW r \in Recycles, RecycleIdle(r) PROVE PoolInv'
  <2>1. /\ recycle[r] = NoRecycle /\ Scan(r, Len(pool), pool)
        /\ crossed' = (crossed \/ \E o \in Recycles : recycle[o] # NoRecycle)
        /\ UNCHANGED <<pool, alive, created, sandboxOf>>
    BY <1>5 DEF RecycleIdle
  <2>2. /\ recycle' \in [Recycles -> [at: Nat, destroys: Nat]]
        /\ \A o \in Recycles : o # r => recycle'[o] = recycle[o]
        /\ recycle'[r] # NoRecycle =>
             recycle'[r].at \in 1 .. Len(pool) /\ pool[recycle'[r].at].id = recycle'[r].destroys
    BY <1>t, <2>1, ScanFinds
  <2>3. /\ crossed' \in BOOLEAN
        /\ ~ crossed' => ~ crossed /\ \A o \in Recycles : recycle[o] = NoRecycle
    BY <2>1
  <2>4. PoolTyped' /\ IdsApart'
    BY <2>1, <2>2, <2>3 DEF PoolInv, PoolTyped, IdsApart
  <2>5. IndexHolds'
    <3>1. \A o \in Recycles : recycle'[o] # NoRecycle => recycle'[o].at # 0
      BY <2>2 DEF PoolInv, IndexHolds
    <3>2. ASSUME ~ crossed', NEW o \in Recycles, recycle'[o] # NoRecycle
          PROVE  /\ o = r
                 /\ recycle'[o].at <= Len(pool) /\ pool[recycle'[o].at].id = recycle'[o].destroys
      BY <1>t, <2>2, <2>3, <3>2
    <3> QED
      BY <2>1, <3>1, <3>2 DEF IndexHolds
  <2>6. ~ crossed' => alive' = PoolIds'
    BY <2>1, <2>3 DEF PoolInv, PoolIds
  <2> QED
    BY <2>4, <2>5, <2>6 DEF PoolInv
<1>6. ASSUME NEW r \in Recycles, Destroyed(r) PROVE PoolInv'
  <2> DEFINE i == recycle[r].at
  <2>1. /\ recycle[r] # NoRecycle
        /\ alive' = alive \ {recycle[r].destroys}
        /\ pool' = IF i > Len(pool) THEN pool ELSE Spliced(pool, i)
        /\ Scan(r, i - 1, pool')
        /\ UNCHANGED <<created, sandboxOf, crossed>>
    BY <1>6 DEF Destroyed
  <2>2. i \in Nat /\ i # 0 /\ i - 1 \in Nat
    BY <1>t, <2>1 DEF PoolInv, IndexHolds
  <2> HIDE DEF i
  <2> DEFINE kept == [k \in 1 .. Len(pool') |-> IF i > Len(pool) THEN k ELSE IF k < i THEN k ELSE k + 1]
  <2>3. /\ pool' \in Seq(Entry) /\ Len(pool') \in Nat
        /\ \A k \in 1 .. Len(pool') : kept[k] \in 1 .. Len(pool) /\ kept[k] # i /\ pool'[k] = pool[kept[k]]
        /\ \A k, l \in 1 .. Len(pool') : kept[k] = kept[l] => k = l
        /\ \A m \in 1 .. Len(pool) : m # i => \E k \in 1 .. Len(pool') : kept[k] = m
    <3>1. CASE i > Len(pool)
      <4>1. pool' = pool /\ \A k \in 1 .. Len(pool') : kept[k] = k
        BY <2>1, <3>1
      <4> HIDE DEF kept
      <4> QED
        BY <1>t, <2>2, <3>1, <4>1
    <3>2. CASE ~ (i > Len(pool))
      <4>1. i \in 1 .. Len(pool) /\ pool' = Spliced(pool, i)
        BY <1>t, <2>1, <2>2, <3>2
      <4>2. /\ pool' \in Seq(Entry) /\ Len(pool') = Len(pool) - 1
            /\ \A k \in 1 .. Len(pool) - 1 : pool'[k] = IF k < i THEN pool[k] ELSE pool[k + 1]
        BY <1>t, <4>1, SpliceDrops
      <4>3. \A k \in 1 .. Len(pool) - 1 : kept[k] = IF k < i THEN k ELSE k + 1
        BY <3>2, <4>2
      <4> HIDE DEF kept
      <4>4. \A k \in 1 .. Len(pool) - 1 : kept[k] \in 1 .. Len(pool) /\ kept[k] # i
        BY <1>t, <4>1, <4>3
      <4>5. \A k \in 1 .. Len(pool) - 1 : pool'[k] = pool[kept[k]]
        BY <4>2, <4>3
      <4>6. \A k, l \in 1 .. Len(pool) - 1 : kept[k] = kept[l] => k = l
        BY <1>t, <4>1, <4>3
      <4>7. ASSUME NEW m \in 1 .. Len(pool), m # i PROVE \E k \in 1 .. Len(pool) - 1 : kept[k] = m
        <5>1. CASE m < i
          <6>1. m \in 1 .. Len(pool) - 1
            BY <1>t, <4>1, <5>1
          <6> QED
            BY <4>3, <5>1, <6>1
        <5>2. CASE ~ (m < i)
          <6>1. m - 1 \in 1 .. Len(pool) - 1 /\ ~ (m - 1 < i) /\ m - 1 + 1 = m
            BY <1>t, <4>1, <4>7, <5>2
          <6> QED
            BY <4>3, <6>1
        <5> QED
          BY <5>1, <5>2
      <4>8. Len(pool') \in Nat
        BY <4>2, LenProperties
      <4> QED
        BY <4>2, <4>4, <4>5, <4>6, <4>7, <4>8
    <3> QED
      BY <3>1, <3>2
  <2> HIDE DEF kept
  <2>6. /\ recycle' \in [Recycles -> [at: Nat, destroys: Nat]]
        /\ \A o \in Recycles : o # r => recycle'[o] = recycle[o]
        /\ recycle'[r] # NoRecycle =>
             recycle'[r].at \in 1 .. Len(pool') /\ pool'[recycle'[r].at].id = recycle'[r].destroys
    BY <2>1, <2>2, <2>3, ScanFinds
  <2>7. PoolTyped'
    BY <1>t, <2>1, <2>3, <2>6 DEF PoolTyped
  <2>8. IdsApart'
    <3>1. /\ \A k \in 1 .. Len(pool) : pool[k].id \in 1 .. created
          /\ \A k, j \in 1 .. Len(pool) : pool[k].id = pool[j].id => k = j
          /\ \A b \in Holders : sandboxOf[b] <= created
          /\ \A b \in Holders, k \in 1 .. Len(pool) : pool[k].id = sandboxOf[b] => pool[k].inUse
          /\ \A b, c \in Holders : sandboxOf[b] # 0 /\ sandboxOf[b] = sandboxOf[c] => b = c
      BY DEF PoolInv, IdsApart
    <3>2. \A k \in 1 .. Len(pool') : pool'[k].id \in 1 .. created'
      BY <2>1, <2>3, <3>1
    <3>3. ASSUME NEW k \in 1 .. Len(pool'), NEW j \in 1 .. Len(pool'), pool'[k].id = pool'[j].id
          PROVE  k = j
      <4>1. /\ kept[k] \in 1 .. Len(pool) /\ kept[j] \in 1 .. Len(pool)
            /\ pool[kept[k]].id = pool[kept[j]].id
        BY <2>3, <3>3
      <4>2. kept[k] = kept[j]
        BY <3>1, <4>1
      <4> QED
        BY <2>3, <4>2
    <3>4. \A b \in Holders, k \in 1 .. Len(pool') : pool'[k].id = sandboxOf'[b] => pool'[k].inUse
      BY <2>1, <2>3, <3>1
    <3> QED
      BY <2>1, <3>1, <3>2, <3>3, <3>4 DEF IdsApart
  <2>9. IndexHolds'
    <3>1. \A o \in Recycles : recycle'[o] # NoRecycle => recycle'[o].at # 0
      BY <2>3, <2>6 DEF PoolInv, IndexHolds
    <3>2. ASSUME ~ crossed', NEW o \in Recycles, recycle'[o] # NoRecycle
          PROVE  /\ o = r
                 /\ recycle'[o].at <= Len(pool') /\ pool'[recycle'[o].at].id = recycle'[o].destroys
      <4>1. o = r
        BY <2>1, <2>6, <3>2 DEF PoolInv, IndexHolds
      <4> QED
        BY <2>3, <2>6, <3>2, <4>1
    <3> QED
      BY <3>1, <3>2 DEF IndexHolds
  <2>10. ASSUME ~ crossed' PROVE alive' = PoolIds'
    <3>1. i <= Len(pool) /\ pool[i].id = recycle[r].destroys /\ alive = PoolIds /\ i \in 1 .. Len(pool)
      BY <1>t, <2>1, <2>2, <2>10 DEF PoolInv, IndexHolds, i
    <3>2. \A k, j \in 1 .. Len(pool) : pool[k].id = pool[j].id => k = j
      BY DEF PoolInv, IdsApart
    <3>3. PoolIds' \subseteq PoolIds \ {pool[i].id}
      BY <2>3, <3>1, <3>2 DEF PoolIds
    <3>4. ASSUME NEW m \in 1 .. Len(pool), m # i PROVE pool[m].id \in PoolIds'
      BY <2>3, <3>4 DEF PoolIds
    <3>5. PoolIds \ {pool[i].id} \subseteq PoolIds'
      BY <3>4 DEF PoolIds
    <3> QED
      BY <2>1, <3>1, <3>3, <3>5
  <2> QED
    BY <2>7, <2>8, <2>9, <2>10 DEF PoolInv
<1>7. ASSUME NEW r \in Recycles, DestroyFails(r) PROVE PoolInv'
  <2>1. /\ recycle' = [recycle EXCEPT ![r] = NoRecycle]
        /\ UNCHANGED <<pool, alive, created, sandboxOf, crossed>>
    BY <1>7 DEF DestroyFails
  <2>2. /\ recycle' \in [Recycles -> [at: Nat, destroys: Nat]] /\ recycle'[r] = NoRecycle
        /\ \A o \in Recycles : o # r => recycle'[o] = recycle[o]
    <3>1. NoRecycle \in [at: Nat, destroys: Nat]
      BY DEF NoRecycle
    <3> QED
      BY <1>t, <2>1, <3>1
  <2>3. PoolTyped' /\ IdsApart'
    BY <2>1, <2>2 DEF PoolInv, PoolTyped, IdsApart
  <2>4. IndexHolds'
    BY <2>1, <2>2 DEF PoolInv, IndexHolds
  <2>5. ~ crossed' => alive' = PoolIds'
    BY <2>1 DEF PoolInv, PoolIds
  <2> QED
    BY <2>3, <2>4, <2>5 DEF PoolInv
<1>8. CASE UNCHANGED poolVars
  BY <1>8 DEF poolVars, PoolInv, PoolTyped, IdsApart, IndexHolds, PoolIds
<1> QED
  BY <1>1, <1>2, <1>3, <1>4, <1>5, <1>6, <1>7, <1>8 DEF PoolNext

(* No sandbox has two agents, and none runs on outside of the pool.        *)
THEOREM PoolAlwaysSound == PoolSpec => []PoolSound
<1>1. PoolInv => PoolSound
  <2> SUFFICES ASSUME PoolInv PROVE PoolSound
    OBVIOUS
  <2>1. PoolIds = {pool[i].id : i \in DOMAIN pool}
    BY LenProperties DEF PoolInv, PoolTyped, PoolIds
  <2> QED
    BY <2>1 DEF PoolInv, IdsApart, PoolSound
<1> QED
  BY <1>1, PoolInitInv, PoolStep, PTL DEF PoolSpec

-----------------------------------------------------------------------------
(* Dreams (Dream). *)

Action == [deletes: SUBSET Memories, keeps: SUBSET Memories, facts: SUBSET Memories]

Concerns(action) == action.deletes \cup action.keeps

DreamTyped == actions \in Seq(Action) /\ rekept \in BOOLEAN /\ DOMAIN content = Memories

(* While the answer is parsed, an action has its memories to itself, what  *)
(* it deletes it keeps the facts of, or the answer named it.               *)
Apart ==
  /\ \A m \in Memories : content[m] = {m}
  /\ ~ rekept =>
       /\ \A i \in 1 .. Len(actions) :
            /\ Concerns(actions[i]) \subseteq usedIds
            /\ actions[i].keeps \cap actions[i].deletes = {}
            /\ actions[i].keeps = {} => actions[i].deletes \subseteq dropped
            /\ actions[i].keeps # {} => Concerns(actions[i]) \subseteq actions[i].facts
       /\ \A i, j \in 1 .. Len(actions) :
            i # j => Concerns(actions[i]) \cap Concerns(actions[j]) = {}

(* A fact is in a memory, and stays there, or will be written to one.      *)
Survives(m, k) ==
  /\ content[k] # {}
  /\ \/ m \in content[k] /\ \A i \in 1 .. Len(actions) : k \in actions[i].keeps => m \in actions[i].facts
     \/ \E i \in 1 .. Len(actions) : k \in actions[i].keeps /\ m \in actions[i].facts

Rewriting ==
  ~ rekept =>
    /\ \A i, j \in 1 .. Len(actions) : i # j => actions[i].keeps \cap actions[j].keeps = {}
    /\ \A m \in Memories \ dropped : \E k \in Memories : Survives(m, k)

DreamInv ==
  /\ DreamTyped
  /\ pc \in {"parse", "delete"} => Apart
  /\ pc \in {"update", "done"} => Rewriting
  /\ pc = "done" => actions = <<>>

LEMMA DreamInitInv == DreamInit => DreamInv
<1> SUFFICES ASSUME DreamInit PROVE DreamInv
  OBVIOUS
<1>1. actions = <<>> /\ Len(actions) = 0 /\ actions \in Seq(Action)
  BY EmptySeq DEF DreamInit
<1>2. pc = "parse" /\ rekept = FALSE /\ content = [m \in Memories |-> {m}]
  BY DEF DreamInit
<1>3. DreamTyped
  BY <1>1, <1>2 DEF DreamTyped
<1>4. \A i \in 1 .. Len(actions) : FALSE
  BY <1>1
<1>5. \A m \in Memories : content[m] = {m}
  BY <1>2
<1>6. Apart
  BY <1>4, <1>5 DEF Apart
<1> QED
  BY <1>2, <1>3, <1>6 DEF DreamInv

(* What an item adds to the actions.                                       *)
LEMMA TakeKeeps ==
  ASSUME DreamInv, NEW action \in Action, Take(Concerns(action), action),
         rekept' \in BOOLEAN, dropped \subseteq dropped',
         ~ rekept' => ~ rekept /\ Concerns(action) \cap usedIds = {},
         action.keeps \cap action.deletes = {},
         action.keeps = {} => action.deletes \subseteq dropped',
         action.keeps # {} => Concerns(action) \subseteq action.facts
  PROVE  DreamInv'
<1>1. /\ pc = "parse" /\ pc' = "parse" /\ usedIds' = usedIds \cup Concerns(action)
      /\ actions' = Append(actions, action) /\ content' = content
      /\ actions \in Seq(Action) /\ DOMAIN content = Memories /\ Len(actions) \in Nat
  BY LenProperties DEF DreamInv, DreamTyped, Take
<1>2. /\ actions' \in Seq(Action) /\ Len(actions') = Len(actions) + 1
      /\ actions'[Len(actions) + 1] = action
      /\ \A i \in 1 .. Len(actions) : actions'[i] = actions[i]
  BY <1>1, AppendProperties
<1>3. \A i \in 1 .. Len(actions') : i \in 1 .. Len(actions) \/ i = Len(actions) + 1
  BY <1>1, <1>2
<1>4. DreamTyped'
  BY <1>1, <1>2 DEF DreamTyped
<1>5. ASSUME ~ rekept', NEW i \in 1 .. Len(actions)
      PROVE  /\ Concerns(actions[i]) \subseteq usedIds
             /\ actions[i].keeps \cap actions[i].deletes = {}
             /\ actions[i].keeps = {} => actions[i].deletes \subseteq dropped
             /\ actions[i].keeps # {} => Concerns(actions[i]) \subseteq actions[i].facts
             /\ \A j \in 1 .. Len(actions) : i # j => Concerns(actions[i]) \cap Concerns(actions[j]) = {}
  BY <1>1, <1>5 DEF DreamInv, Apart
<1>6. ASSUME ~ rekept', NEW i \in 1 .. Len(actions')
      PROVE  /\ Concerns(actions'[i]) \subseteq usedIds'
             /\ actions'[i].keeps \cap actions'[i].deletes = {}
             /\ actions'[i].keeps = {} => actions'[i].deletes \subseteq dropped'
             /\ actions'[i].keeps # {} => Concerns(actions'[i]) \subseteq actions'[i].facts
  <2>1. CASE i \in 1 .. Len(actions)
    BY <1>1, <1>2, <1>5, <1>6, <2>1
  <2>2. CASE i = Len(actions) + 1
    BY <1>1, <1>2, <2>2
  <2> QED
    BY <1>3, <2>1, <2>2
<1>7. ASSUME ~ rekept', NEW i \in 1 .. Len(actions'), NEW j \in 1 .. Len(actions'), i # j
      PROVE  Concerns(actions'[i]) \cap Concerns(actions'[j]) = {}
  <2>0. Concerns(action) \cap usedIds = {}
    BY <1>7
  <2>1. CASE i \in 1 .. Len(actions) /\ j \in 1 .. Len(actions)
    BY <1>2, <1>5, <1>7, <2>1
  <2>2. CASE i \in 1 .. Len(actions) /\ j = Len(actions) + 1
    BY <1>2, <1>5, <1>7, <2>0, <2>2
  <2>3. CASE j \in 1 .. Len(actions) /\ i = Len(actions) + 1
    BY <1>2, <1>5, <1>7, <2>0, <2>3
  <2> QED
    BY <1>3, <1>7, <2>1, <2>2, <2>3
<1>8. Apart'
  <2>1. \A m \in Memories : content'[m] = {m}
    BY <1>1 DEF DreamInv, Apart
  <2> QED
    BY <2>1, <1>6, <1>7 DEF Apart
<1> QED
  BY <1>1, <1>4, <1>8 DEF DreamInv

(* What a rewrite leaves to do, and where.                                 *)
LEMMA RewriteKeeps == DreamInv /\ ApplyUpdate => DreamInv'
<1> SUFFICES ASSUME DreamInv, ApplyUpdate PROVE DreamInv'
  OBVIOUS
<1> DEFINE first == Head(actions)
<1>1. /\ pc = "update" /\ pc' = "update" /\ actions # <<>> /\ actions' = Tail(actions)
      /\ content' = [m \in Memories |-> IF m \in first.keeps /\ content[m] # {} THEN first.facts ELSE content[m]]
      /\ dropped' = dropped /\ rekept' = rekept
      /\ actions \in Seq(Action) /\ rekept \in BOOLEAN
  BY DEF DreamInv, DreamTyped, ApplyUpdate
<1>2. /\ Len(actions) \in Nat /\ Len(actions) # 0 /\ first = actions[1] /\ actions' \in Seq(Action)
      /\ Len(actions') = Len(actions) - 1
      /\ \A i \in 1 .. Len(actions') : actions'[i] = actions[i + 1]
  <2>1. Len(actions) \in Nat /\ Len(actions) # 0
    BY <1>1, LenProperties, EmptySeq
  <2>2. first = actions[1] /\ actions' \in Seq(Action) /\ Len(actions') = Len(actions) - 1
        /\ \A i \in 1 .. Len(actions') : actions'[i] = actions[i + 1]
    BY <1>1, <2>1, HeadTailProperties
  <2> QED
    BY <2>1, <2>2
<1> HIDE DEF first
<1>3. /\ 1 \in 1 .. Len(actions)
      /\ \A i \in 1 .. Len(actions') : i + 1 \in 1 .. Len(actions) /\ i + 1 # 1
      /\ \A i \in 1 .. Len(actions) : i # 1 => i - 1 \in 1 .. Len(actions') /\ actions'[i - 1] = actions[i]
  <2>1. /\ 1 \in 1 .. Len(actions)
        /\ \A i \in 1 .. Len(actions') : i + 1 \in 1 .. Len(actions) /\ i + 1 # 1
    BY <1>2
  <2>2. ASSUME NEW i \in 1 .. Len(actions), i # 1
        PROVE  i - 1 \in 1 .. Len(actions') /\ actions'[i - 1] = actions[i]
    <3>1. i - 1 \in 1 .. Len(actions') /\ i - 1 + 1 = i
      BY <1>2, <2>2
    <3> QED
      BY <1>2, <3>1
  <2> QED
    BY <2>1, <2>2
<1>4. DreamTyped'
  BY <1>1, <1>2 DEF DreamTyped
<1>5. ASSUME ~ rekept PROVE Rewriting'
  <2>1. /\ \A i, j \in 1 .. Len(actions) : i # j => actions[i].keeps \cap actions[j].keeps = {}
        /\ \A m \in Memories \ dropped : \E k \in Memories : Survives(m, k)
    BY <1>1, <1>5 DEF DreamInv, Rewriting
  <2>2. ASSUME NEW i \in 1 .. Len(actions'), NEW j \in 1 .. Len(actions'), i # j
        PROVE  actions'[i].keeps \cap actions'[j].keeps = {}
    <3>1. i + 1 # j + 1
      BY <1>2, <2>2
    <3> QED
      BY <1>2, <1>3, <2>1, <3>1
  <2>3. ASSUME NEW m \in Memories \ dropped
        PROVE  \E k \in Memories : Survives(m, k)'
    <3>1. PICK k \in Memories : Survives(m, k)
      BY <2>1
    <3>2. content'[k] = IF k \in first.keeps /\ content[k] # {} THEN first.facts ELSE content[k]
      BY <1>1
    <3>3. content[k] # {}
      BY <3>1 DEF Survives
    <3>4. CASE m \in content[k] /\ \A i \in 1 .. Len(actions) : k \in actions[i].keeps => m \in actions[i].facts
      <4>1. m \in content'[k]
        BY <1>2, <1>3, <3>2, <3>4
      <4>2. \A i \in 1 .. Len(actions') : k \in actions'[i].keeps => m \in actions'[i].facts
        BY <1>2, <1>3, <3>4
      <4> QED
        BY <4>1, <4>2 DEF Survives
    <3>5. ASSUME NEW i \in 1 .. Len(actions), k \in actions[i].keeps, m \in actions[i].facts
          PROVE  Survives(m, k)'
      <4>1. CASE i = 1
        <5>1. m \in content'[k]
          BY <1>2, <3>2, <3>3, <3>5, <4>1
        <5>2. ASSUME NEW j \in 1 .. Len(actions') PROVE k \notin actions'[j].keeps
          <6>1. actions[j + 1].keeps \cap actions[1].keeps = {}
            BY <1>3, <2>1
          <6> QED
            BY <1>2, <3>5, <4>1, <6>1
        <5> QED
          BY <5>1, <5>2 DEF Survives
      <4>2. CASE i # 1
        <5>1. k \notin first.keeps
          BY <1>2, <1>3, <2>1, <3>5, <4>2
        <5>2. content'[k] # {}
          BY <3>2, <3>3, <5>1
        <5>3. i - 1 \in 1 .. Len(actions') /\ actions'[i - 1] = actions[i]
          BY <1>3, <4>2
        <5> QED
          BY <3>5, <5>2, <5>3 DEF Survives
      <4> QED
        BY <4>1, <4>2
    <3> QED
      BY <3>1, <3>4, <3>5 DEF Survives
  <2> QED
    BY <1>1, <2>2, <2>3 DEF Rewriting
<1>6. Rewriting'
  BY <1>1, <1>5 DEF Rewriting
<1> QED
  BY <1>1, <1>4, <1>6 DEF DreamInv

(* What is deleted is written elsewhere, or was deleted by name.           *)
LEMMA DeletesKeep == DreamInv /\ ApplyDeletes => DreamInv'
<1> SUFFICES ASSUME DreamInv, ApplyDeletes PROVE DreamInv'
  OBVIOUS
<1> DEFINE gone == UNION {actions[i].deletes : i \in DOMAIN actions}
<1>1. /\ pc = "delete" /\ pc' = "update"
      /\ content' = [m \in Memories |-> IF m \in gone THEN {} ELSE content[m]]
      /\ actions' = actions /\ dropped' = dropped /\ rekept' = rekept
      /\ actions \in Seq(Action) /\ DOMAIN actions = 1 .. Len(actions) /\ rekept \in BOOLEAN
  BY LenProperties DEF DreamInv, DreamTyped, ApplyDeletes
<1>2. \A m : m \in gone <=> \E i \in 1 .. Len(actions) : m \in actions[i].deletes
  BY <1>1
<1>g. \A i \in 1 .. Len(actions) : actions[i].keeps \subseteq Memories /\ actions[i].deletes \subseteq Memories
  <2>1. \A i \in 1 .. Len(actions) : actions[i] \in Action
    BY <1>1, ElementOfSeq
  <2> QED
    BY <2>1 DEF Action
<1> HIDE DEF gone
<1>3. DreamTyped'
  BY <1>1 DEF DreamInv, DreamTyped
<1>4. ASSUME ~ rekept PROVE Rewriting'
  <2>1. /\ \A m \in Memories : content[m] = {m}
        /\ \A i \in 1 .. Len(actions) :
             /\ actions[i].keeps \cap actions[i].deletes = {}
             /\ actions[i].keeps = {} => actions[i].deletes \subseteq dropped
             /\ actions[i].keeps # {} => Concerns(actions[i]) \subseteq actions[i].facts
        /\ \A i, j \in 1 .. Len(actions) : i # j => Concerns(actions[i]) \cap Concerns(actions[j]) = {}
    BY <1>1, <1>4 DEF DreamInv, Apart
  <2>2. \A i, j \in 1 .. Len(actions) : i # j => actions[i].keeps \cap actions[j].keeps = {}
    BY <2>1 DEF Concerns
  <2>3. ASSUME NEW m \in Memories \ dropped PROVE \E k \in Memories : Survives(m, k)'
    <3>1. CASE m \notin gone
      <4>1. content'[m] = {m}
        BY <1>1, <2>1, <3>1
      <4>2. \A i \in 1 .. Len(actions) : m \in actions[i].keeps => m \in actions[i].facts
        BY <2>1 DEF Concerns
      <4> QED
        BY <1>1, <4>1, <4>2 DEF Survives
    <3>2. CASE m \in gone
      <4>1. PICK i \in 1 .. Len(actions) : m \in actions[i].deletes
        BY <1>2, <3>2
      <4>2. PICK k \in Memories : k \in actions[i].keeps
        BY <1>g, <2>1, <4>1
      <4>3. k \notin gone
        <5>1. \A j \in 1 .. Len(actions) : k \notin actions[j].deletes
          BY <2>1, <4>2 DEF Concerns
        <5> QED
          BY <1>2, <5>1
      <4>4. content'[k] = {k}
        BY <1>1, <2>1, <4>3
      <4>5. m \in actions[i].facts
        BY <2>1, <4>1, <4>2 DEF Concerns
      <4> QED
        BY <1>1, <4>2, <4>4, <4>5 DEF Survives
    <3> QED
      BY <3>1, <3>2
  <2> QED
    BY <1>1, <2>2, <2>3 DEF Rewriting
<1>5. Rewriting'
  BY <1>1, <1>4 DEF Rewriting
<1> QED
  BY <1>1, <1>3, <1>5 DEF DreamInv

LEMMA DreamStep == DreamInv /\ [DreamNext]_dreamVars => DreamInv'
<1> SUFFICES ASSUME DreamInv, [DreamNext]_dreamVars PROVE DreamInv'
  OBVIOUS
<1>t. rekept \in BOOLEAN
  BY DEF DreamInv, DreamTyped
<1>1. ASSUME NEW m \in Memories, DeleteItem(m) PROVE DreamInv'
  <2> DEFINE action == [deletes |-> {m}, keeps |-> {}, facts |-> {}]
  <2>1. action \in Action /\ Concerns(action) = {m} /\ action.keeps = {} /\ action.deletes = {m}
    BY DEF Action, Concerns
  <2>2. Take({m}, action) /\ m \notin usedIds /\ dropped' = dropped \cup {m} /\ rekept' = rekept
    BY <1>1 DEF DeleteItem
  <2> HIDE DEF action
  <2>3. Take(Concerns(action), action)
    BY <2>1, <2>2
  <2> QED
    BY <1>t, <2>1, <2>2, <2>3, TakeKeeps
<1>2. ASSUME NEW m \in Memories, UpdateItem(m) PROVE DreamInv'
  <2> DEFINE action == [deletes |-> {}, keeps |-> {m}, facts |-> {m}]
  <2>1. /\ action \in Action /\ Concerns(action) = {m} /\ action.keeps = {m}
        /\ action.deletes = {} /\ action.facts = {m}
    BY DEF Action, Concerns
  <2>2. Take({m}, action) /\ m \notin usedIds /\ dropped' = dropped /\ rekept' = rekept
    BY <1>2 DEF UpdateItem
  <2> HIDE DEF action
  <2>3. Take(Concerns(action), action)
    BY <2>1, <2>2
  <2> QED
    BY <1>t, <2>1, <2>2, <2>3, TakeKeeps
<1>3. ASSUME NEW m \in Memories, NEW ids \in SUBSET Memories, MergeItem(m, ids) PROVE DreamInv'
  <2> DEFINE valid == ids \ (usedIds \cup {m})
             action == [deletes |-> valid, keeps |-> {m}, facts |-> ids \cup {m}]
  <2>1. /\ action \in Action /\ Concerns(action) = valid \cup {m} /\ action.keeps = {m}
        /\ action.deletes = valid /\ action.facts = ids \cup {m}
    BY DEF Action, Concerns
  <2>2. /\ Take(valid \cup {m}, action) /\ dropped' = dropped
        /\ rekept' = (rekept \/ m \in usedIds)
    BY <1>3 DEF MergeItem
  <2>3. valid \subseteq ids /\ m \notin valid /\ valid \cap usedIds = {}
    OBVIOUS
  <2> HIDE DEF action, valid
  <2>4. Take(Concerns(action), action)
    BY <2>1, <2>2
  <2>5. rekept' \in BOOLEAN
    BY <2>2
  <2>6. ~ rekept' => ~ rekept /\ Concerns(action) \cap usedIds = {}
    BY <2>1, <2>2, <2>3
  <2>7. /\ action.keeps \cap action.deletes = {} /\ action.keeps # {} /\ dropped \subseteq dropped'
        /\ Concerns(action) \subseteq action.facts
    BY <2>1, <2>2, <2>3
  <2> QED
    BY <2>1, <2>4, <2>5, <2>6, <2>7, TakeKeeps
<1>4. ASSUME Parsed PROVE DreamInv'
  <2>1. /\ pc = "parse" /\ pc' = "delete"
        /\ usedIds' = usedIds /\ actions' = actions /\ content' = content
        /\ dropped' = dropped /\ rekept' = rekept
    BY <1>4 DEF Parsed
  <2>2. DreamTyped' /\ Apart'
    BY <2>1 DEF DreamInv, DreamTyped, Apart
  <2> QED
    BY <2>1, <2>2 DEF DreamInv
<1>5. ASSUME ApplyDeletes PROVE DreamInv'
  BY <1>5, DeletesKeep
<1>6. ASSUME ApplyUpdate PROVE DreamInv'
  BY <1>6, RewriteKeeps
<1>7. ASSUME Finish PROVE DreamInv'
  <2>1. /\ pc = "update" /\ pc' = "done" /\ actions = <<>>
        /\ actions' = actions /\ content' = content
        /\ dropped' = dropped /\ rekept' = rekept
    BY <1>7 DEF Finish
  <2>2. DreamTyped' /\ Rewriting'
    BY <2>1 DEF DreamInv, DreamTyped, Rewriting, Survives
  <2> QED
    BY <2>1, <2>2 DEF DreamInv
<1>8. ASSUME DreamFails PROVE DreamInv'
  BY <1>8 DEF DreamFails, DreamInv, DreamTyped
<1>9. CASE UNCHANGED dreamVars
  <2>1. /\ pc' = pc /\ usedIds' = usedIds /\ actions' = actions /\ content' = content
        /\ dropped' = dropped /\ rekept' = rekept
    BY <1>9 DEF dreamVars
  <2>2. DreamTyped' /\ (Apart' <=> Apart) /\ (Rewriting' <=> Rewriting)
    BY <2>1 DEF DreamInv, DreamTyped, Apart, Rewriting, Survives
  <2> QED
    BY <2>1, <2>2 DEF DreamInv
<1> QED
  BY <1>1, <1>2, <1>3, <1>4, <1>5, <1>6, <1>7, <1>8, <1>9 DEF DreamNext

(* A fact is in some memory after every dream that finishes, unless an      *)
(* item deletes it by name or keeps a memory that an earlier item took:     *)
(* for any memories and any proposal of the model.                          *)
THEOREM FactsAlwaysKept == DreamSpec => []FactsKept
<1>1. DreamInv => FactsKept
  <2> SUFFICES ASSUME DreamInv, pc = "done", ~ rekept, NEW m \in Memories \ dropped
               PROVE  m \in UNION {content[k] : k \in Memories}
    BY DEF FactsKept
  <2>1. Len(actions) = 0
    BY EmptySeq DEF DreamInv
  <2>2. PICK k \in Memories : Survives(m, k)
    BY DEF DreamInv, Rewriting
  <2>3. m \in content[k]
    BY <2>1, <2>2 DEF Survives
  <2> QED
    BY <2>3
<1> QED
  BY <1>1, DreamInitInv, DreamStep, PTL DEF DreamSpec

-----------------------------------------------------------------------------
(* What a stream is charged (UsageMeter). *)

Readers == [buf: Seq(Symbols), usage: [in: Nat, cacheRead: Nat, out: Nat]]

(* The counts of u are the largest of the objects in S. *)
Largest(u, S) ==
  /\ u \in [in: Nat, cacheRead: Nat, out: Nat]
  /\ \A s \in S : /\ TokensIn(Usages[s]) <= u.in
                  /\ Usages[s].cached <= u.cacheRead
                  /\ Usages[s].completion <= u.out
  /\ u.in = 0 \/ \E s \in S : TokensIn(Usages[s]) = u.in
  /\ u.cacheRead = 0 \/ \E s \in S : Usages[s].cached = u.cacheRead
  /\ u.out = 0 \/ \E s \in S : Usages[s].completion = u.out

(* The buffer is the last line of t, which is not complete, and the counts *)
(* are those of the lines before it.                                       *)
LastLine(t, b) ==
  /\ Len(b) <= Len(t)
  /\ \A i \in 1 .. Len(b) : b[i] = t[Len(t) - Len(b) + i] /\ b[i] # "\n"
  /\ Len(b) < Len(t) => t[Len(t) - Len(b)] = "\n"

Metered(t, reader) ==
  /\ reader \in Readers /\ t \in Seq(Symbols)
  /\ LastLine(t, reader.buf)
  /\ Largest(reader.usage, SeenIn(t))

LEMMA CountsTyped ==
  ASSUME NEW s \in DOMAIN Usages
  PROVE  /\ Usages[s].cached \in Nat /\ Usages[s].completion \in Nat /\ Usages[s].prompt \in Nat
         /\ TokensIn(Usages[s]) \in Nat
<1>1. Usages[s].cached \in Nat /\ Usages[s].completion \in Nat /\ Usages[s].prompt \in Nat
  BY UsageAssumption
<1> QED
  BY <1>1 DEF TokensIn

LEMMA MergeKeepsLargest ==
  ASSUME NEW u, NEW S, S \subseteq DOMAIN Usages, Largest(u, S), NEW x \in DOMAIN Usages
  PROVE  Largest(Merge(u, Usages[x]), S \cup {x})
<1> DEFINE a == TokensIn(Usages[x])
<1> DEFINE b == Usages[x].cached
<1> DEFINE c == Usages[x].completion
<1>1. a \in Nat /\ b \in Nat /\ c \in Nat
  BY CountsTyped
<1>2. \A s \in S : TokensIn(Usages[s]) \in Nat /\ Usages[s].cached \in Nat /\ Usages[s].completion \in Nat
  BY CountsTyped
<1>3. u.in \in Nat /\ u.cacheRead \in Nat /\ u.out \in Nat
  BY DEF Largest
<1>4. Merge(u, Usages[x]) = [in |-> Larger(u.in, a), cacheRead |-> Larger(u.cacheRead, b), out |-> Larger(u.out, c)]
  BY DEF Merge
<1>5. /\ Larger(u.in, a) \in Nat /\ u.in <= Larger(u.in, a) /\ a <= Larger(u.in, a)
      /\ Larger(u.in, a) = u.in \/ Larger(u.in, a) = a
  BY <1>1, <1>3 DEF Larger
<1>6. /\ Larger(u.cacheRead, b) \in Nat /\ u.cacheRead <= Larger(u.cacheRead, b) /\ b <= Larger(u.cacheRead, b)
      /\ Larger(u.cacheRead, b) = u.cacheRead \/ Larger(u.cacheRead, b) = b
  BY <1>1, <1>3 DEF Larger
<1>7. /\ Larger(u.out, c) \in Nat /\ u.out <= Larger(u.out, c) /\ c <= Larger(u.out, c)
      /\ Larger(u.out, c) = u.out \/ Larger(u.out, c) = c
  BY <1>1, <1>3 DEF Larger
<1> DEFINE m == Merge(u, Usages[x])
<1>8. m.in = Larger(u.in, a) /\ m.cacheRead = Larger(u.cacheRead, b) /\ m.out = Larger(u.out, c)
  BY <1>4
<1>9. m \in [in: Nat, cacheRead: Nat, out: Nat]
  BY <1>4, <1>5, <1>6, <1>7
<1> HIDE DEF m
<1>10. ASSUME NEW s \in S \cup {x}
       PROVE  TokensIn(Usages[s]) <= m.in /\ Usages[s].cached <= m.cacheRead /\ Usages[s].completion <= m.out
  <2>1. CASE s = x
    BY <1>5, <1>6, <1>7, <1>8, <2>1
  <2>2. CASE s \in S
    <3>1. TokensIn(Usages[s]) <= u.in /\ Usages[s].cached <= u.cacheRead /\ Usages[s].completion <= u.out
      BY <2>2 DEF Largest
    <3>2. TokensIn(Usages[s]) \in Nat /\ Usages[s].cached \in Nat /\ Usages[s].completion \in Nat
      BY <1>2, <2>2
    <3> HIDE DEF a, b, c
    <3> QED
      BY <1>3, <1>5, <1>6, <1>7, <1>8, <3>1, <3>2
  <2> QED
    BY <2>1, <2>2
<1>11. m.in = 0 \/ \E s \in S \cup {x} : TokensIn(Usages[s]) = m.in
  BY <1>5, <1>8 DEF Largest
<1>12. m.cacheRead = 0 \/ \E s \in S \cup {x} : Usages[s].cached = m.cacheRead
  BY <1>6, <1>8 DEF Largest
<1>13. m.out = 0 \/ \E s \in S \cup {x} : Usages[s].completion = m.out
  BY <1>7, <1>8 DEF Largest
<1> QED
  BY <1>9, <1>10, <1>11, <1>12, <1>13 DEF Largest, m

(* t2 is t with one symbol more. *)
Longer(t, x, t2) ==
  /\ t2 \in Seq(Symbols) /\ Len(t2) = Len(t) + 1
  /\ \A i \in 1 .. Len(t) : t2[i] = t[i]
  /\ t2[Len(t) + 1] = x

LEMMA SeenStays ==
  ASSUME NEW t \in Seq(Symbols), NEW x, NEW t2, Longer(t, x, t2)
  PROVE  SeenIn(t) \subseteq SeenIn(t2)
<1> SUFFICES ASSUME NEW u \in SeenIn(t) PROVE u \in SeenIn(t2)
  OBVIOUS
<1>1. PICK i \in 1 .. Len(t) - 2 :
        /\ t[i] = "data:" /\ t[i + 1] = u /\ t[i + 2] = "\n"
        /\ i > 1 => t[i - 1] = "\n"
  BY DEF SeenIn
<1>2. Len(t) \in Nat /\ Len(t2) = Len(t) + 1
  BY DEF Longer
<1>3. i \in 1 .. Len(t2) - 2 /\ i \in 1 .. Len(t) /\ i + 1 \in 1 .. Len(t) /\ i + 2 \in 1 .. Len(t)
  BY <1>2
<1>4. i > 1 => i - 1 \in 1 .. Len(t)
  BY <1>2
<1> QED
  BY <1>1, <1>3, <1>4 DEF SeenIn, Longer

LEMMA SeenBefore ==
  ASSUME NEW t \in Seq(Symbols), NEW b \in Seq(Symbols), LastLine(t, b),
         NEW x, NEW t2, Longer(t, x, t2), NEW u \in SeenIn(t2), u \notin SeenIn(t)
  PROVE  x = "\n" /\ Len(b) = 2 /\ b[1] = "data:" /\ b[2] = u
<1>1. PICK i \in 1 .. Len(t2) - 2 :
        /\ t2[i] = "data:" /\ t2[i + 1] = u /\ t2[i + 2] = "\n"
        /\ i > 1 => t2[i - 1] = "\n"
  BY DEF SeenIn
<1>2. Len(t) \in Nat /\ Len(t2) = Len(t) + 1 /\ Len(b) \in Nat /\ u \in DOMAIN Usages /\ u # "\n"
  BY UsageAssumption DEF Longer, SeenIn
<1>3. i \in 1 .. Len(t) /\ i + 1 \in 1 .. Len(t) /\ (i > 1 => i - 1 \in 1 .. Len(t))
  BY <1>2
<1>4. t[i] = "data:" /\ t[i + 1] = u /\ (i > 1 => t[i - 1] = "\n")
  BY <1>1, <1>3 DEF Longer
<1>5. ~ (i + 2 \in 1 .. Len(t))
  <2> SUFFICES ASSUME i + 2 \in 1 .. Len(t) PROVE FALSE
    OBVIOUS
  <2>1. t[i + 2] = "\n" /\ i \in 1 .. Len(t) - 2
    BY <1>1, <1>2 DEF Longer
  <2> QED
    BY <1>2, <1>4, <2>1 DEF SeenIn
<1>6. i = Len(t) - 1 /\ i + 2 = Len(t) + 1
  BY <1>2, <1>5
<1>7. x = "\n"
  BY <1>1, <1>6 DEF Longer
<1>8. Len(b) # 0 /\ Len(b) # 1
  BY <1>2, <1>3, <1>4, <1>6 DEF LastLine
<1>9. ~ (Len(b) > 2)
  <2> SUFFICES ASSUME Len(b) > 2 PROVE FALSE
    OBVIOUS
  <2>1. Len(b) - 2 \in 1 .. Len(b) /\ Len(t) - Len(b) + (Len(b) - 2) = i - 1 /\ i > 1
    BY <1>2, <1>6 DEF LastLine
  <2>2. t[i - 1] # "\n"
    BY <2>1 DEF LastLine
  <2> QED
    BY <1>4, <2>1, <2>2
<1>10. Len(b) = 2
  <2>1. ASSUME NEW m \in Nat, m # 0, m # 1, ~ (m > 2) PROVE m = 2
    BY <2>1
  <2>2. Len(b) \in Nat
    OBVIOUS
  <2> QED
    BY <1>8, <1>9, <2>1, <2>2
<1>11. b[1] = t[Len(t) - 2 + 1] /\ b[2] = t[Len(t) - 2 + 2]
  BY <1>10 DEF LastLine
<1> QED
  BY <1>2, <1>4, <1>6, <1>7, <1>10, <1>11

LEMMA SeenOfLine ==
  ASSUME NEW t \in Seq(Symbols), NEW b \in Seq(Symbols), LastLine(t, b),
         NEW t2, Longer(t, "\n", t2),
         Len(b) = 2, b[1] = "data:", b[2] \in DOMAIN Usages
  PROVE  b[2] \in SeenIn(t2)
<1> DEFINE i == Len(t) - 1
<1>1. Len(t) \in Nat /\ Len(t2) = Len(t) + 1 /\ Len(t) >= 2
  BY DEF Longer, LastLine
<1>2. b[1] = t[Len(t) - 2 + 1] /\ b[2] = t[Len(t) - 2 + 2]
  BY DEF LastLine
<1>3. t[i] = "data:" /\ t[i + 1] = b[2]
  BY <1>1, <1>2
<1>4. i > 1 => t[i - 1] = "\n"
  BY <1>1 DEF LastLine
<1>5. i \in 1 .. Len(t) /\ i + 1 \in 1 .. Len(t) /\ i \in 1 .. Len(t2) - 2 /\ i + 2 = Len(t) + 1
      /\ (i > 1 => i - 1 \in 1 .. Len(t))
  BY <1>1
<1>6. t2[i] = t[i] /\ t2[i + 1] = t[i + 1] /\ t2[i + 2] = "\n" /\ (i > 1 => t2[i - 1] = t[i - 1])
  BY <1>5 DEF Longer
<1> HIDE DEF i
<1> QED
  BY <1>3, <1>4, <1>5, <1>6 DEF SeenIn

(* One symbol more. *)
LEMMA SymbolMetered ==
  ASSUME NEW t, NEW reader, Metered(t, reader), NEW x \in Symbols, NEW t2, Longer(t, x, t2)
  PROVE  Metered(t2, TakeSymbol(reader, x))
<1> DEFINE b == reader.buf
<1> DEFINE u == reader.usage
<1> DEFINE r2 == TakeSymbol(reader, x)
<1>1. /\ t \in Seq(Symbols) /\ b \in Seq(Symbols) /\ LastLine(t, b) /\ Largest(u, SeenIn(t))
      /\ t2 \in Seq(Symbols) /\ Len(t) \in Nat /\ Len(t2) = Len(t) + 1 /\ Len(b) \in Nat
  BY DEF Metered, Readers, Longer
<1>2. SeenIn(t) \subseteq DOMAIN Usages /\ SeenIn(t2) \subseteq DOMAIN Usages
  BY DEF SeenIn
<1>3. SeenIn(t) \subseteq SeenIn(t2)
  BY <1>1, SeenStays
<1>4. CASE x = "\n"
  <2>1. r2 = [buf |-> <<>>, usage |-> Absorb(u, b)]
    BY <1>4 DEF TakeSymbol
  <2>2. LastLine(t2, <<>>)
    BY <1>1, <1>4 DEF LastLine, Longer
  <2>3. Largest(Absorb(u, b), SeenIn(t2))
    <3>1. CASE Len(b) = 2 /\ b[1] = "data:" /\ b[2] \in DOMAIN Usages
      <4>1. b[2] \in SeenIn(t2)
        BY <1>1, <1>4, <3>1, SeenOfLine
      <4>2. SeenIn(t2) \subseteq SeenIn(t) \cup {b[2]}
        BY <1>1, SeenBefore
      <4>3. SeenIn(t2) = SeenIn(t) \cup {b[2]}
        BY <1>3, <4>1, <4>2
      <4>4. Absorb(u, b) = Merge(u, Usages[b[2]])
        BY <3>1 DEF Absorb
      <4> HIDE DEF b, u
      <4> QED
        BY <1>1, <1>2, <3>1, <4>3, <4>4, MergeKeepsLargest
    <3>2. CASE ~ (Len(b) = 2 /\ b[1] = "data:" /\ b[2] \in DOMAIN Usages)
      <4>1. SeenIn(t2) \subseteq SeenIn(t)
        BY <1>1, <1>2, <3>2, SeenBefore
      <4>2. SeenIn(t2) = SeenIn(t)
        BY <1>3, <4>1
      <4>3. Absorb(u, b) = u
        BY <3>2 DEF Absorb
      <4> QED
        BY <1>1, <4>2, <4>3
    <3> QED
      BY <3>1, <3>2
  <2>4. r2 \in Readers
    BY <2>1, <2>3 DEF Readers, Largest
  <2> QED
    BY <1>1, <2>1, <2>2, <2>3, <2>4 DEF Metered
<1>5. CASE x # "\n"
  <2>1. r2 = [buf |-> Append(b, x), usage |-> u]
    BY <1>5 DEF TakeSymbol
  <2>2. SeenIn(t2) = SeenIn(t)
    BY <1>1, <1>3, <1>5, SeenBefore
  <2> DEFINE c == Append(b, x)
  <2>3. /\ c \in Seq(Symbols) /\ Len(c) = Len(b) + 1 /\ c[Len(b) + 1] = x
        /\ \A i \in 1 .. Len(b) : c[i] = b[i]
    BY <1>1
  <2>4. LastLine(t2, c)
    <3> HIDE DEF b, c
    <3>1. Len(c) <= Len(t2)
      BY <1>1, <2>3 DEF LastLine
    <3>2. ASSUME NEW i \in 1 .. Len(c) PROVE c[i] = t2[Len(t2) - Len(c) + i] /\ c[i] # "\n"
      <4>1. CASE i = Len(b) + 1
        BY <1>1, <1>5, <2>3, <4>1 DEF Longer
      <4>2. CASE i # Len(b) + 1
        <5>1. i \in 1 .. Len(b) /\ Len(t2) - Len(c) + i = Len(t) - Len(b) + i
              /\ Len(t) - Len(b) + i \in 1 .. Len(t)
          BY <1>1, <2>3, <4>2 DEF LastLine
        <5>2. c[i] = b[i] /\ t2[Len(t) - Len(b) + i] = t[Len(t) - Len(b) + i]
          BY <2>3, <5>1 DEF Longer
        <5> QED
          BY <1>1, <5>1, <5>2 DEF LastLine
      <4> QED
        BY <4>1, <4>2
    <3>3. Len(c) < Len(t2) => t2[Len(t2) - Len(c)] = "\n"
      <4> SUFFICES ASSUME Len(c) < Len(t2) PROVE t2[Len(t2) - Len(c)] = "\n"
        OBVIOUS
      <4>1. Len(b) < Len(t) /\ Len(t2) - Len(c) = Len(t) - Len(b) /\ Len(t) - Len(b) \in 1 .. Len(t)
        BY <1>1, <2>3
      <4> QED
        BY <1>1, <4>1 DEF LastLine, Longer
    <3> QED
      BY <3>1, <3>2, <3>3 DEF LastLine
  <2>5. r2 \in Readers
    BY <1>1, <2>1, <2>3 DEF Readers, Largest
  <2> QED
    BY <1>1, <2>1, <2>2, <2>4, <2>5 DEF Metered
<1> QED
  BY <1>4, <1>5

(* The loop of push is well defined: there is a run of it as far as any    *)
(* place in the chunk.                                                     *)
IsLoop(after, reader, chunk) ==
  after = [k \in 0 .. Len(chunk) |-> IF k = 0 THEN reader ELSE TakeSymbol(after[k - 1], chunk[k])]

LEMMA LoopExists ==
  ASSUME NEW reader, NEW chunk \in Seq(Symbols)
  PROVE  \E after : IsLoop(after, reader, chunk)
<1> DEFINE As(f, m) ==
      f = [k \in 0 .. m |-> IF k = 0 THEN reader ELSE TakeSymbol(f[k - 1], chunk[k])]
<1> DEFINE Bad == {m \in Nat : ~ \E f : As(f, m)}
<1>1. Bad = {}
  <2> SUFFICES ASSUME Bad # {} PROVE FALSE
    OBVIOUS
  <2>1. Bad \subseteq Nat
    OBVIOUS
  <2>2. PICK m \in Bad : \A y \in Bad : m <= y
    <3> HIDE DEF Bad
    <3> QED
      BY <2>1, LeastExists
  <2>3. m # 0
    <3>1. As([k \in 0 .. 0 |-> reader], 0)
      OBVIOUS
    <3> QED
      BY <3>1
  <2>4. m \in Nat /\ m - 1 \in Nat /\ ~ (m <= m - 1)
    BY <2>3
  <2>5. m - 1 \notin Bad
    <3> HIDE DEF Bad
    <3> QED
      BY <2>2, <2>4
  <2>6. PICK f : As(f, m - 1)
    BY <2>4, <2>5
  <2> DEFINE g == [k \in 0 .. m |-> IF k = m THEN TakeSymbol(f[m - 1], chunk[m]) ELSE f[k]]
  <2>7. ASSUME NEW k \in 0 .. m
        PROVE  g[k] = IF k = 0 THEN reader ELSE TakeSymbol(g[k - 1], chunk[k])
    <3>1. CASE k = m
      <4>1. m - 1 \in 0 .. m /\ m - 1 # m
        BY <2>4
      <4> QED
        BY <2>3, <3>1, <4>1
    <3>2. CASE k # m
      <4>1. k \in 0 .. m - 1 /\ (k # 0 => k - 1 \in 0 .. m /\ k - 1 # m)
        BY <2>4, <3>2
      <4>2. f[k] = IF k = 0 THEN reader ELSE TakeSymbol(f[k - 1], chunk[k])
        BY <2>6, <4>1
      <4> QED
        BY <3>2, <4>1, <4>2
    <3> QED
      BY <3>1, <3>2
  <2>8. As(g, m)
    <3> DEFINE h == [k \in 0 .. m |-> IF k = 0 THEN reader ELSE TakeSymbol(g[k - 1], chunk[k])]
    <3>1. \A k \in 0 .. m : g[k] = h[k]
      <4> HIDE DEF g
      <4> QED
        BY <2>7
    <3>2. g = h
      <4>1. DOMAIN g = 0 .. m /\ DOMAIN h = 0 .. m /\ g = [k \in 0 .. m |-> g[k]] /\ h = [k \in 0 .. m |-> h[k]]
        OBVIOUS
      <4> HIDE DEF g, h
      <4> QED
        BY <3>1, <4>1
    <3> QED
      BY <3>2
  <2> QED
    BY <2>8
<1>2. Len(chunk) \notin Bad /\ Len(chunk) \in Nat
  BY <1>1
<1> QED
  BY <1>2 DEF IsLoop

LEMMA LastOfBoth ==
  ASSUME NEW t, NEW chunk, NEW n \in Nat, NEW k \in Nat, k # 0
  PROVE  [i \in 1 .. n + k |-> IF i <= n THEN t[i] ELSE chunk[i - n]][n + k] = chunk[k]
<1> DEFINE m == n + k
<1>1. m \in 1 .. m /\ ~ (m <= n) /\ m - n = k
  OBVIOUS
<1> HIDE DEF m
<1>2. [i \in 1 .. m |-> IF i <= n THEN t[i] ELSE chunk[i - n]][m] = chunk[m - n]
  BY <1>1
<1> QED
  BY <1>1, <1>2 DEF m

(* A chunk more. *)
LEMMA ChunkMetered ==
  ASSUME NEW t, NEW reader, Metered(t, reader), NEW chunk \in Seq(Symbols)
  PROVE  Metered(t \o chunk, Fed(reader, chunk))
<1> DEFINE after == CHOOSE f : IsLoop(f, reader, chunk)
<1> DEFINE n == Len(t)
<1> DEFINE Upto(k) == [i \in 1 .. n + k |-> IF i <= n THEN t[i] ELSE chunk[i - n]]
<1>1. Fed(reader, chunk) = after[Len(chunk)]
  BY DEF Fed, IsLoop
<1>2. IsLoop(after, reader, chunk)
  BY LoopExists
<1> HIDE DEF after
<1>3. /\ t \in Seq(Symbols) /\ n \in Nat /\ Len(chunk) \in Nat
      /\ \A i \in 1 .. n : t[i] \in Symbols
      /\ \A i \in 1 .. Len(chunk) : chunk[i] \in Symbols
  BY DEF Metered
<1>4. /\ after[0] = reader
      /\ \A k \in 1 .. Len(chunk) : after[k] = TakeSymbol(after[k - 1], chunk[k])
  BY <1>2, <1>3 DEF IsLoop
<1>5. ASSUME NEW k \in 0 .. Len(chunk) PROVE Upto(k) \in Seq(Symbols) /\ Len(Upto(k)) = n + k
  <2> HIDE DEF n
  <2>1. n + k \in Nat /\ Upto(k) \in [1 .. n + k -> Symbols]
    BY <1>3 DEF n
  <2> QED
    BY <2>1
<1>6. Upto(0) = t
  <2>1. n + 0 = n /\ t = [i \in 1 .. n |-> t[i]]
    BY <1>3
  <2>2. \A i \in 1 .. n : i <= n
    BY <1>3
  <2> QED
    BY <2>1, <2>2
<1>7. ASSUME NEW k \in 1 .. Len(chunk) PROVE Longer(Upto(k - 1), chunk[k], Upto(k))
  <2>1. k - 1 \in 0 .. Len(chunk) /\ k \in 0 .. Len(chunk) /\ k \in Nat
    BY <1>3
  <2>2. Len(Upto(k - 1)) = n + (k - 1) /\ Len(Upto(k)) = n + k /\ Upto(k) \in Seq(Symbols)
    BY <1>5, <2>1
  <2> HIDE DEF n
  <2>3. n + k = n + (k - 1) + 1 /\ n + k \in 1 .. n + k /\ ~ (n + k <= n) /\ n + k - n = k
    BY <1>3, <2>1
  <2>4. Upto(k)[n + k] = chunk[k]
    BY <1>3, <2>1, k # 0, LastOfBoth
  <2>5. ASSUME NEW i \in 1 .. n + (k - 1) PROVE Upto(k)[i] = Upto(k - 1)[i]
    <3>1. i \in 1 .. n + k
      BY <1>3, <2>1
    <3> QED
      BY <3>1
  <2> HIDE DEF Upto
  <2> QED
    BY <2>2, <2>3, <2>4, <2>5 DEF Longer
<1>8. Upto(Len(chunk)) = t \o chunk
  <2> DEFINE c == t \o chunk
  <2>1. /\ c \in Seq(Symbols) /\ Len(c) = n + Len(chunk)
        /\ \A i \in 1 .. n + Len(chunk) : c[i] = IF i <= n THEN t[i] ELSE chunk[i - n]
    BY <1>3, ConcatProperties
  <2> HIDE DEF c
  <2>2. c = [i \in 1 .. n + Len(chunk) |-> c[i]]
    BY <2>1
  <2> QED
    BY <2>1, <2>2 DEF c
<1> DEFINE Bad == {k \in Nat : k <= Len(chunk) /\ ~ Metered(Upto(k), after[k])}
<1> HIDE DEF Upto, n
<1>9. Bad = {}
  <2> SUFFICES ASSUME Bad # {} PROVE FALSE
    OBVIOUS
  <2>1. Bad \subseteq Nat
    OBVIOUS
  <2>2. PICK k \in Bad : \A y \in Bad : k <= y
    <3> HIDE DEF Bad
    <3> QED
      BY <2>1, LeastExists
  <2>3. k # 0
    BY <1>4, <1>6
  <2>4. k \in 1 .. Len(chunk) /\ k - 1 \in Nat /\ k - 1 <= Len(chunk) /\ ~ (k <= k - 1)
    BY <1>3, <2>3
  <2>5. k - 1 \notin Bad
    <3> HIDE DEF Bad
    <3> QED
      BY <2>2, <2>4
  <2>6. Metered(Upto(k - 1), after[k - 1])
    BY <2>4, <2>5
  <2>7. Metered(Upto(k), TakeSymbol(after[k - 1], chunk[k]))
    BY <1>3, <1>7, <2>4, <2>6, SymbolMetered
  <2> QED
    BY <1>4, <2>4, <2>7
<1>10. Metered(Upto(Len(chunk)), after[Len(chunk)])
  BY <1>3, <1>9
<1> QED
  BY <1>1, <1>8, <1>10

UsageInv ==
  protocol \in {"openai", "anthropic"} /\ Metered(text, [buf |-> buf, usage |-> usage])

LEMMA UsageInitInv == UsageInit => UsageInv
<1> SUFFICES ASSUME UsageInit PROVE UsageInv
  OBVIOUS
<1>1. SeenIn(<<>>) = {}
  BY DEF SeenIn
<1>2. <<>> \in Seq(Symbols) /\ LastLine(<<>>, <<>>)
  BY DEF LastLine
<1>3. Largest([in |-> 0, cacheRead |-> 0, out |-> 0], {})
  BY DEF Largest
<1> QED
  BY <1>1, <1>2, <1>3 DEF UsageInit, UsageInv, Metered, Readers

LEMMA UsageStep == UsageInv /\ [UsageNext]_meterStreamVars => UsageInv'
<1> SUFFICES ASSUME UsageInv, [UsageNext]_meterStreamVars PROVE UsageInv'
  OBVIOUS
<1>1. CASE UsageNext
  <2>1. PICK chunk \in Chunks : Push(chunk)
    BY <1>1 DEF UsageNext
  <2>2. chunk \in Seq(Symbols)
    <3>1. \A a, c \in Symbols : <<a>> \in Seq(Symbols) /\ <<a, c>> \in Seq(Symbols)
      OBVIOUS
    <3> QED
      <4>1. PICK a \in Symbols, c \in Symbols : chunk = <<a>> \/ chunk = <<a, c>>
        BY DEF Chunks
      <4> QED
        BY <3>1, <4>1
  <2> DEFINE reader == Fed([buf |-> buf, usage |-> usage], chunk)
  <2>3. Metered(text \o chunk, reader)
    BY <2>2, ChunkMetered DEF UsageInv
  <2> HIDE DEF reader
  <2>4. buf' = reader.buf /\ usage' = reader.usage /\ text' = text \o chunk /\ protocol' = protocol
    BY <2>1 DEF Push, reader
  <2>5. reader = [buf |-> buf', usage |-> usage']
    <3>1. reader \in Readers
      BY <2>3 DEF Metered
    <3> QED
      BY <2>4, <3>1 DEF Readers
  <2>6. Metered(text', [buf |-> buf', usage |-> usage'])
    BY <2>3, <2>4, <2>5
  <2> QED
    BY <2>4, <2>6 DEF UsageInv, Metered, Largest, TokensIn
<1>2. CASE UNCHANGED meterStreamVars
  BY <1>2 DEF meterStreamVars, UsageInv, Metered, Largest, TokensIn
<1> QED
  BY <1>1, <1>2

(* What is in S or 0 and not below any of S is what MaxOf finds.           *)
LEMMA TopOf ==
  ASSUME NEW S, S \subseteq Nat, NEW m \in Nat, \A x \in S : x <= m, m = 0 \/ m \in S
  PROVE  MaxOf(S) = m
<1>1. CASE S = {}
  BY <1>1 DEF MaxOf
<1>2. CASE S # {}
  <2>1. m \in S
    <3>1. PICK x \in S : x <= m
      BY <1>2
    <3> QED
      BY <3>1
  <2>2. \A x \in S : m >= x
    BY <2>1
  <2>3. ASSUME NEW x \in S, \A y \in S : x >= y PROVE x = m
    BY <2>1, <2>2, <2>3
  <2>4. Max(S) = m
    <3>1. Max(S) = CHOOSE x \in S : \A y \in S : x >= y
      BY DEF Max
    <3> QED
      BY <2>1, <2>2, <2>3, <3>1
  <2> QED
    BY <1>2, <2>4 DEF MaxOf
<1> QED
  BY <1>1, <1>2

LEMMA UsageCharged == UsageInv => ChargedAsSent
<1> SUFFICES ASSUME UsageInv, protocol = "openai" => Cumulative PROVE ChargedAsSent
  BY DEF ChargedAsSent
<1> DEFINE prompts == { Usages[s].prompt : s \in Seen }
<1> DEFINE reads == { Usages[s].cached : s \in Seen }
<1> DEFINE completions == { Usages[s].completion : s \in Seen }
<1>1. Largest(usage, Seen) /\ Seen \subseteq DOMAIN Usages
  BY DEF UsageInv, Metered, Seen, SeenIn
<1>2. usage.in \in Nat /\ usage.cacheRead \in Nat /\ usage.out \in Nat
  BY <1>1 DEF Largest
<1>3. \A s \in Seen : Usages[s].cached \in Nat /\ Usages[s].completion \in Nat /\ Usages[s].prompt \in Nat
  BY <1>1, CountsTyped
<1>4. MaxOf(reads) = usage.cacheRead
  <2>1. reads \subseteq Nat
    BY <1>3
  <2>2. \A x \in reads : x <= usage.cacheRead
    BY <1>1 DEF Largest
  <2>3. usage.cacheRead = 0 \/ usage.cacheRead \in reads
    BY <1>1 DEF Largest
  <2> HIDE DEF reads
  <2> QED
    BY <1>2, <2>1, <2>2, <2>3, TopOf
<1>5. MaxOf(completions) = usage.out
  <2>1. completions \subseteq Nat
    BY <1>3
  <2>2. \A x \in completions : x <= usage.out
    BY <1>1 DEF Largest
  <2>3. usage.out = 0 \/ usage.out \in completions
    BY <1>1 DEF Largest
  <2> HIDE DEF completions
  <2> QED
    BY <1>2, <2>1, <2>2, <2>3, TopOf
<1>6. usage.in = IF protocol = "openai" THEN MaxOf(prompts) - MaxOf(reads) ELSE MaxOf(prompts)
  <2>1. prompts \subseteq Nat
    BY <1>3
  <2>2. CASE protocol = "anthropic"
    <3>1. \A s \in Seen : TokensIn(Usages[s]) = Usages[s].prompt
      BY <2>2 DEF TokensIn
    <3>2. \A x \in prompts : x <= usage.in
      BY <1>1, <3>1 DEF Largest
    <3>3. usage.in = 0 \/ usage.in \in prompts
      BY <1>1, <3>1 DEF Largest
    <3>4. MaxOf(prompts) = usage.in
      <4> HIDE DEF prompts
      <4> QED
        BY <1>2, <2>1, <3>2, <3>3, TopOf
    <3> QED
      BY <2>2, <3>4
  <2>3. CASE protocol = "openai"
    <3>1. Cumulative
      BY <2>3
    <3>2. \A s \in Seen : Usages[s].cached <= Usages[s].prompt
      BY <1>1, <3>1 DEF Cumulative
    <3>3. \A s \in Seen : TokensIn(Usages[s]) = Usages[s].prompt - Usages[s].cached
      <4>1. \A p, c \in Nat : c <= p => (IF p > c THEN p - c ELSE 0) = p - c
        OBVIOUS
      <4>2. \A s \in Seen : TokensIn(Usages[s]) = IF Usages[s].prompt > Usages[s].cached THEN Usages[s].prompt - Usages[s].cached ELSE 0
        BY <2>3 DEF TokensIn
      <4> QED
        BY <1>3, <3>2, <4>1, <4>2
    <3>4. CASE Seen = {}
      <4>1. usage.in = 0 /\ usage.cacheRead = 0
        BY <1>1, <3>4 DEF Largest
      <4>2. MaxOf(prompts) = 0
        BY <3>4 DEF MaxOf
      <4> QED
        BY <1>4, <2>3, <4>1, <4>2
    <3>5. CASE Seen # {}
      <4>1. PICK top \in Seen : \A s \in Seen : Usages[s].prompt <= Usages[top].prompt
        <5> DEFINE peak == usage.cacheRead + usage.in
        <5> DEFINE above == { k \in Nat : \A s \in Seen : Usages[s].prompt <= k }
        <5>1. ASSUME NEW s \in Seen PROVE Usages[s].prompt <= peak
          <6>1. TokensIn(Usages[s]) <= usage.in /\ Usages[s].cached <= usage.cacheRead
            BY <1>1 DEF Largest
          <6>2. TokensIn(Usages[s]) = Usages[s].prompt - Usages[s].cached
            BY <3>3
          <6>3. \A p, c, i, r \in Nat : p - c <= i /\ c <= r => p <= r + i
            OBVIOUS
          <6> QED
            BY <1>2, <1>3, <6>1, <6>2, <6>3
        <5>2. peak \in above
          BY <1>2, <5>1
        <5>3. above \subseteq Nat /\ above # {}
          BY <5>2
        <5>4. PICK k \in above : \A y \in above : k <= y
          <6> HIDE DEF above
          <6> QED
            BY <5>3, LeastExists
        <5>5. k \in Nat /\ \A s \in Seen : Usages[s].prompt <= k
          OBVIOUS
        <5>6. \E s \in Seen : Usages[s].prompt = k
          <6> SUFFICES ASSUME \A s \in Seen : Usages[s].prompt # k PROVE FALSE
            OBVIOUS
          <6>1. k # 0
            <7>1. PICK s \in Seen : TRUE
              BY <3>5
            <7> QED
              BY <1>3, <5>5, <7>1
          <6>2. k - 1 \in Nat /\ ~ (k <= k - 1)
            BY <5>5, <6>1
          <6>3. \A s \in Seen : Usages[s].prompt <= k - 1
            BY <1>3, <5>5, <6>2
          <6>4. k - 1 \in above
            BY <6>2, <6>3
          <6> HIDE DEF above
          <6> QED
            BY <5>4, <6>2, <6>4
        <5> QED
          BY <5>5, <5>6
      <4>2. \A s \in Seen : /\ Usages[s].cached <= Usages[top].cached
                            /\ Usages[s].prompt - Usages[s].cached <= Usages[top].prompt - Usages[top].cached
        BY <1>1, <3>1, <4>1 DEF Cumulative
      <4>3. MaxOf(prompts) = Usages[top].prompt
        <5>1. /\ \A x \in prompts : x <= Usages[top].prompt
              /\ Usages[top].prompt \in prompts /\ Usages[top].prompt \in Nat
          BY <1>3, <4>1
        <5> HIDE DEF prompts
        <5> QED
          BY <2>1, <5>1, TopOf
      <4>4. usage.cacheRead = Usages[top].cached
        <5>1. Usages[top].cached <= usage.cacheRead /\ Usages[top].cached \in Nat
          BY <1>1, <1>3 DEF Largest
        <5>2. usage.cacheRead = 0 \/ usage.cacheRead <= Usages[top].cached
          BY <1>1, <4>2 DEF Largest
        <5> QED
          BY <1>2, <5>1, <5>2
      <4>5. usage.in = Usages[top].prompt - Usages[top].cached
        <5>1. TokensIn(Usages[top]) <= usage.in /\ TokensIn(Usages[top]) = Usages[top].prompt - Usages[top].cached
          BY <1>1, <3>3 DEF Largest
        <5>2. usage.in = 0 \/ usage.in <= Usages[top].prompt - Usages[top].cached
          BY <1>1, <3>3, <4>2 DEF Largest
        <5>3. Usages[top].prompt - Usages[top].cached \in Nat
          BY <1>3, <3>2
        <5> QED
          BY <1>2, <5>1, <5>2, <5>3
      <4> QED
        BY <1>4, <2>3, <4>3, <4>4, <4>5
    <3> QED
      BY <3>4, <3>5
  <2> QED
    BY <2>2, <2>3 DEF UsageInv
<1> HIDE DEF prompts, reads, completions
<1>7. ChargedAsSent <=>
        CostOf(usage) = (IF protocol = "openai" THEN MaxOf(prompts) - MaxOf(reads) ELSE MaxOf(prompts)) * Price.input
                          + MaxOf(reads) * Price.cacheRead + MaxOf(completions) * Price.output
  BY DEF ChargedAsSent, prompts, reads, completions
<1> QED
  BY <1>4, <1>5, <1>6, <1>7 DEF CostOf

(* However upstream's stream is cut into chunks, and whatever of it is     *)
(* repeated or comes late, it is charged for the largest counts it named,  *)
(* each token once.                                                        *)
THEOREM AlwaysChargedAsSent == UsageSpec => []ChargedAsSent
  BY UsageInitInv, UsageStep, UsageCharged, PTL DEF UsageSpec

-----------------------------------------------------------------------------
(* Sequences, and what is put together of them (for TranslateRequest). *)

(* Induction: a set of sequences that has the empty one and every longer   *)
(* one of each has them all.                                               *)
LEMMA AllSequences ==
  ASSUME NEW S, NEW T, <<>> \in T,
         \A s \in Seq(S), x \in S : s \in T => Append(s, x) \in T
  PROVE  Seq(S) \subseteq T
<1> DEFINE Bad == {n \in Nat : \E s \in Seq(S) : Len(s) = n /\ s \notin T}
<1> SUFFICES Bad = {}
  <2>1. \A s \in Seq(S) : Len(s) \in Nat
    OBVIOUS
  <2> QED
    BY <2>1
<1> SUFFICES ASSUME Bad # {} PROVE FALSE
  OBVIOUS
<1>1. PICK n \in Bad : \A m \in Bad : n <= m
  <2>1. Bad \subseteq Nat
    OBVIOUS
  <2> HIDE DEF Bad
  <2> QED
    BY <2>1, LeastExists
<1>2. PICK s \in Seq(S) : Len(s) = n /\ s \notin T
  OBVIOUS
<1>3. s # <<>>
  BY <1>2
<1>4. PICK r \in Seq(S), x \in S : s = Append(r, x)
  BY <1>3, SequenceEmptyOrAppend
<1>5. Len(r) + 1 = n /\ Len(r) \in Nat
  BY <1>2, <1>4
<1>6. r \notin T
  BY <1>2, <1>4
<1>7. Len(r) \in Bad
  BY <1>5, <1>6
<1>8. n <= Len(r) /\ n \in Nat
  <2>1. n \in Nat
    OBVIOUS
  <2> HIDE DEF Bad
  <2> QED
    BY <1>1, <1>7, <2>1
<1> QED
  BY <1>5, <1>8

(* A function that goes on from f0 by step. *)
Goes(f, n, step) ==
  /\ DOMAIN f = 1 .. n /\ n \in Nat
  /\ f = [i \in 1 .. n |-> IF i = 1 THEN step[1] ELSE f[i - 1] \o step[i]]

LEMMA GoesOn ==
  ASSUME NEW n \in Nat, NEW step
  PROVE  \E f : Goes(f, n, step)
<1> DEFINE Bad == {m \in Nat : ~ \E f : Goes(f, m, step)}
<1> SUFFICES Bad = {}
  OBVIOUS
<1> SUFFICES ASSUME Bad # {} PROVE FALSE
  OBVIOUS
<1>1. PICK m \in Bad : \A k \in Bad : m <= k
  <2>1. Bad \subseteq Nat
    OBVIOUS
  <2> HIDE DEF Bad
  <2> QED
    BY <2>1, LeastExists
<1>2. m # 0
  <2>1. Goes([i \in 1 .. 0 |-> step[1]], 0, step)
    BY DEF Goes
  <2> QED
    BY <2>1
<1>3. m \in Nat /\ m - 1 \in Nat /\ ~ (m <= m - 1)
  BY <1>2
<1>4. m - 1 \notin Bad
  <2> HIDE DEF Bad
  <2> QED
    BY <1>1, <1>3
<1>5. PICK f : Goes(f, m - 1, step)
  BY <1>3, <1>4
<1> DEFINE g == [i \in 1 .. m |-> IF i = m THEN IF m = 1 THEN step[1] ELSE f[m - 1] \o step[m] ELSE f[i]]
<1> DEFINE h == [i \in 1 .. m |-> IF i = 1 THEN step[1] ELSE g[i - 1] \o step[i]]
<1>6. ASSUME NEW i \in 1 .. m PROVE g[i] = h[i]
  <2>1. CASE i = m
    <3>1. i # 1 => i - 1 \in 1 .. m /\ i - 1 # m
      BY <1>3
    <3> QED
      BY <2>1, <3>1
  <2>2. CASE i # m
    <3>1. i \in 1 .. m - 1 /\ (i # 1 => i - 1 \in 1 .. m /\ i - 1 # m)
      BY <1>3, <2>2
    <3>2. f[i] = IF i = 1 THEN step[1] ELSE f[i - 1] \o step[i]
      BY <1>5, <3>1 DEF Goes
    <3> QED
      BY <2>2, <3>1, <3>2
  <2> QED
    BY <2>1, <2>2
<1>7. g = h
  <2>1. DOMAIN g = 1 .. m /\ g = [i \in 1 .. m |-> g[i]] /\ h = [i \in 1 .. m |-> h[i]]
    OBVIOUS
  <2> HIDE DEF g, h
  <2> QED
    BY <1>6, <2>1
<1>8. DOMAIN g = 1 .. m
  OBVIOUS
<1>9. Goes(g, m, step)
  BY <1>3, <1>7, <1>8 DEF Goes
<1> QED
  BY <1>9

LEMMA FlattenGoes ==
  ASSUME NEW s, Len(s) \in Nat \ {0}
  PROVE  \E f : Goes(f, Len(s), s) /\ FlattenSeq(s) = f[Len(s)]
<1> DEFINE f == CHOOSE g : g = [i \in 1 .. Len(s) |-> IF i = 1 THEN s[i] ELSE g[i - 1] \o s[i]]
<1>1. Len(s) \in Nat /\ Len(s) # 0
  OBVIOUS
<1>2. FlattenSeq(s) = f[Len(s)]
  BY <1>1 DEF FlattenSeq
<1>3. \E g : g = [i \in 1 .. Len(s) |-> IF i = 1 THEN s[i] ELSE g[i - 1] \o s[i]]
  <2>1. PICK g : Goes(g, Len(s), s)
    BY <1>1, GoesOn
  <2>2. [i \in 1 .. Len(s) |-> IF i = 1 THEN s[1] ELSE g[i - 1] \o s[i]]
          = [i \in 1 .. Len(s) |-> IF i = 1 THEN s[i] ELSE g[i - 1] \o s[i]]
    OBVIOUS
  <2> QED
    BY <2>1, <2>2 DEF Goes
<1>4. f = [i \in 1 .. Len(s) |-> IF i = 1 THEN s[i] ELSE f[i - 1] \o s[i]]
  BY <1>3
<1> HIDE DEF f
<1>5. [i \in 1 .. Len(s) |-> IF i = 1 THEN s[1] ELSE f[i - 1] \o s[i]]
        = [i \in 1 .. Len(s) |-> IF i = 1 THEN s[i] ELSE f[i - 1] \o s[i]]
  OBVIOUS
<1>6. DOMAIN f = 1 .. Len(s)
  BY <1>4
<1>7. Goes(f, Len(s), s)
  BY <1>1, <1>4, <1>5, <1>6 DEF Goes
<1> QED
  BY <1>2, <1>7

LEMMA GoesSame ==
  ASSUME NEW n \in Nat, NEW m \in Nat, n <= m, NEW step, NEW step2,
         \A i \in 1 .. n : step2[i] = step[i],
         NEW f, NEW g, Goes(f, n, step), Goes(g, m, step2)
  PROVE  \A i \in 1 .. n : f[i] = g[i]
<1> DEFINE Bad == {i \in 1 .. n : f[i] # g[i]}
<1> SUFFICES ASSUME Bad # {} PROVE FALSE
  OBVIOUS
<1>1. PICK i \in Bad : \A k \in Bad : i <= k
  <2>1. Bad \subseteq Nat
    OBVIOUS
  <2> HIDE DEF Bad
  <2> QED
    BY <2>1, LeastExists
<1>2. i \in 1 .. n /\ i \in 1 .. m
  OBVIOUS
<1>3. /\ f[i] = IF i = 1 THEN step[1] ELSE f[i - 1] \o step[i]
      /\ g[i] = IF i = 1 THEN step2[1] ELSE g[i - 1] \o step2[i]
  BY <1>2 DEF Goes
<1>4. CASE i = 1
  BY <1>2, <1>3, <1>4
<1>5. CASE i # 1
  <2>1. i - 1 \in 1 .. n /\ ~ (i <= i - 1)
    BY <1>2, <1>5
  <2>2. i - 1 \notin Bad
    <3> HIDE DEF Bad
    <3> QED
      BY <1>1, <2>1
  <2>3. f[i - 1] = g[i - 1]
    BY <2>1, <2>2
  <2> QED
    BY <1>2, <1>3, <1>5, <2>3
<1> QED
  BY <1>4, <1>5

LEMMA Regrouped ==
  ASSUME NEW S, NEW s \in Seq(S), NEW t \in Seq(S), NEW u \in Seq(S)
  PROVE  (s \o t) \o u = s \o (t \o u) /\ t \o u \in Seq(S)
<1>1. (s \o t) \o u = s \o (t \o u)
  BY ConcatAssociative
<1>2. t \o u \in Seq(S)
  BY ConcatProperties
<1> QED
  BY <1>1, <1>2, Zenon

LEMMA FlattenEmpty == FlattenSeq(<<>>) = <<>>
  BY DEF FlattenSeq

LEMMA FlattenLonger ==
  ASSUME NEW n \in Nat, n # 0, NEW s, Len(s) = n, NEW t, Len(t) = n + 1,
         \A i \in 1 .. n : t[i] = s[i]
  PROVE  FlattenSeq(t) = FlattenSeq(s) \o t[n + 1]
<1>1. PICK f : Goes(f, n, s) /\ FlattenSeq(s) = f[n]
  BY FlattenGoes
<1>2. PICK m \in Nat : m = n + 1
  OBVIOUS
<1>3. PICK g : Goes(g, m, t) /\ FlattenSeq(t) = g[m]
  <2>1. Len(t) \in Nat \ {0} /\ Len(t) = m
    BY <1>2
  <2> QED
    BY <2>1, FlattenGoes
<1>4. n <= m /\ m # 1 /\ m - 1 = n /\ m \in 1 .. m /\ n \in 1 .. n
  BY <1>2
<1>5. g[n] = f[n]
  BY <1>1, <1>3, <1>4, GoesSame
<1>6. g[m] = IF m = 1 THEN t[1] ELSE g[m - 1] \o t[m]
  BY <1>3, <1>4 DEF Goes
<1> QED
  BY <1>1, <1>2, <1>3, <1>4, <1>5, <1>6

LEMMA FlattenSingle ==
  ASSUME NEW t, Len(t) = 1
  PROVE  FlattenSeq(t) = t[1]
<1>1. PICK g : Goes(g, Len(t), t) /\ FlattenSeq(t) = g[Len(t)]
  <2>1. Len(t) \in Nat \ {0}
    OBVIOUS
  <2> QED
    BY <2>1, FlattenGoes, Zenon
<1>2. g[1] = t[1] /\ FlattenSeq(t) = g[1]
  BY <1>1 DEF Goes
<1> QED
  BY <1>2

LEMMA FlattenAppend ==
  ASSUME NEW S, NEW s \in Seq(Seq(S)), NEW x \in Seq(S)
  PROVE  FlattenSeq(Append(s, x)) = FlattenSeq(s) \o x
<1> DEFINE t == Append(s, x)
<1>1. /\ t # <<>> /\ Len(s) \in Nat /\ Len(t) = Len(s) + 1
      /\ (\A i \in 1 .. Len(s) : t[i] = s[i]) /\ t[Len(s) + 1] = x
  BY AppendProperties, LenProperties
<1>2. CASE s = <<>>
  <2>1. Len(t) = 1 /\ t[1] = x /\ FlattenSeq(s) = <<>>
    BY <1>1, <1>2, FlattenEmpty
  <2> HIDE DEF t
  <2>3. FlattenSeq(t) = x
    BY <2>1, FlattenSingle
  <2> QED
    BY <2>1, <2>3, ConcatEmptySeq DEF t
<1>3. CASE s # <<>>
  <2>1. Len(s) # 0
    BY <1>3
  <2> HIDE DEF t
  <2>2. FlattenSeq(t) = FlattenSeq(s) \o t[Len(s) + 1]
    BY <1>1, <2>1, FlattenLonger
  <2> QED
    BY <1>1, <2>2 DEF t
<1> QED
  BY <1>2, <1>3

LEMMA FlattenType ==
  ASSUME NEW S
  PROVE  \A s \in Seq(Seq(S)) : FlattenSeq(s) \in Seq(S)
<1> DEFINE T == {s \in Seq(Seq(S)) : FlattenSeq(s) \in Seq(S)}
<1>1. <<>> \in T
  BY FlattenEmpty, EmptySeq
<1>2. ASSUME NEW s \in Seq(Seq(S)), NEW x \in Seq(S), s \in T PROVE Append(s, x) \in T
  <2>1. FlattenSeq(Append(s, x)) = FlattenSeq(s) \o x
    BY <1>2, FlattenAppend
  <2>2. FlattenSeq(s) \o x \in Seq(S)
    BY <1>2, ConcatProperties
  <2>3. Append(s, x) \in Seq(Seq(S))
    BY AppendProperties
  <2> QED
    BY <2>1, <2>2, <2>3
<1> HIDE DEF T
<1>3. Seq(Seq(S)) \subseteq T
  BY <1>1, <1>2, AllSequences
<1> QED
  BY <1>3 DEF T

LEMMA FlattenConcat ==
  ASSUME NEW S, NEW s \in Seq(Seq(S))
  PROVE  \A t \in Seq(Seq(S)) : FlattenSeq(s \o t) = FlattenSeq(s) \o FlattenSeq(t)
<1> DEFINE T == {t \in Seq(Seq(S)) : FlattenSeq(s \o t) = FlattenSeq(s) \o FlattenSeq(t)}
<1>1. <<>> \in T
  <2>1. s \o <<>> = s
    BY ConcatEmptySeq
  <2>2. FlattenSeq(s) \o <<>> = FlattenSeq(s)
    BY FlattenType, ConcatEmptySeq
  <2> QED
    BY <2>1, <2>2, FlattenEmpty, EmptySeq
<1>2. ASSUME NEW t \in Seq(Seq(S)), NEW x \in Seq(S), t \in T PROVE Append(t, x) \in T
  <2>1. s \o Append(t, x) = Append(s \o t, x)
    <3>1. Append(t, x) = t \o <<x>> /\ Append(s \o t, x) = (s \o t) \o <<x>>
      BY AppendIsConcat, ConcatProperties
    <3>2. <<x>> \in Seq(Seq(S))
      OBVIOUS
    <3> QED
      BY <3>1, <3>2, ConcatAssociative
  <2>2. s \o t \in Seq(Seq(S))
    BY ConcatProperties
  <2>3. FlattenSeq(Append(s \o t, x)) = FlattenSeq(s \o t) \o x
    BY <2>2, FlattenType, FlattenAppend
  <2>4. FlattenSeq(Append(t, x)) = FlattenSeq(t) \o x
    BY FlattenType, FlattenAppend
  <2>5. (FlattenSeq(s) \o FlattenSeq(t)) \o x = FlattenSeq(s) \o (FlattenSeq(t) \o x)
    BY FlattenType, ConcatAssociative
  <2>6. FlattenSeq(s \o t) = FlattenSeq(s) \o FlattenSeq(t)
    BY <1>2
  <2>7. Append(t, x) \in Seq(Seq(S))
    OBVIOUS
  <2> QED
    BY <2>1, <2>3, <2>4, <2>5, <2>6, <2>7
<1> HIDE DEF T
<1>3. Seq(Seq(S)) \subseteq T
  BY <1>1, <1>2, AllSequences
<1> QED
  BY <1>3 DEF T

LEMMA FlattenOne ==
  ASSUME NEW S, NEW x \in Seq(S)
  PROVE  FlattenSeq(<<x>>) = x
<1>1. <<x>> = Append(<<>>, x) /\ <<>> \in Seq(Seq(S)) /\ <<>> \in Seq(S)
  OBVIOUS
<1>2. FlattenSeq(<<x>>) = FlattenSeq(<<>>) \o x
  BY <1>1, FlattenEmpty, FlattenAppend
<1> QED
  BY <1>2, FlattenEmpty, ConcatEmptySeq

(* What a function makes of the elements, one after the other. *)
Mapped(F, a) == [i \in DOMAIN a |-> F[a[i]]]
FlatMap(F, a) == FlattenSeq(Mapped(F, a))
Maps(F, S, R) == F \in [S -> Seq(R)]
SeqsOf(R) == Seq(Seq(R))

LEMMA MappedType ==
  ASSUME NEW S, NEW R, NEW F, Maps(F, S, R), NEW a \in Seq(S)
  PROVE  /\ Mapped(F, a) \in SeqsOf(R)
         /\ Len(Mapped(F, a)) = Len(a)
         /\ DOMAIN a = 1 .. Len(a) /\ Len(a) \in Nat
<1>1. DOMAIN a = 1 .. Len(a) /\ Len(a) \in Nat
  BY LenProperties
<1>2. \A i \in 1 .. Len(a) : F[a[i]] \in Seq(R)
  BY ElementOfSeq DEF Maps
<1> DEFINE Q == Seq(R)
<1> HIDE DEF Q
<1>3. [i \in 1 .. Len(a) |-> F[a[i]]] \in [1 .. Len(a) -> Q]
  BY <1>2 DEF Q
<1>4. \A n \in Nat : \A f \in [1 .. n -> Q] : f \in Seq(Q) /\ Len(f) = n
  OBVIOUS
<1>5. [i \in 1 .. Len(a) |-> F[a[i]]] \in Seq(Q) /\ Len([i \in 1 .. Len(a) |-> F[a[i]]]) = Len(a)
  BY <1>1, <1>3, <1>4, Zenon
<1> QED
  BY <1>1, <1>5, Zenon DEF Q, Mapped, SeqsOf

LEMMA MappedConcat ==
  ASSUME NEW S, NEW R, NEW F, Maps(F, S, R), NEW a \in Seq(S), NEW b \in Seq(S)
  PROVE  Mapped(F, a \o b) = Mapped(F, a) \o Mapped(F, b)
<1> DEFINE A == Mapped(F, a)
<1> DEFINE B == Mapped(F, b)
<1> DEFINE c == a \o b
<1> DEFINE C == Mapped(F, c)
<1> DEFINE D == A \o B
<1> DEFINE Q == Seq(R)
<1>0. /\ A \in Seq(Q) /\ Len(A) = Len(a) /\ DOMAIN a = 1 .. Len(a) /\ Len(a) \in Nat
      /\ B \in Seq(Q) /\ Len(B) = Len(b) /\ DOMAIN b = 1 .. Len(b) /\ Len(b) \in Nat
  BY MappedType DEF SeqsOf
<1>1. /\ c \in Seq(S) /\ Len(c) = Len(a) + Len(b)
      /\ \A i \in 1 .. Len(a) + Len(b) : c[i] = IF i <= Len(a) THEN a[i] ELSE b[i - Len(a)]
  BY ConcatProperties
<1>3. C \in Seq(Q) /\ Len(C) = Len(a) + Len(b) /\ DOMAIN c = 1 .. Len(a) + Len(b)
  <2> HIDE DEF c
  <2> QED
    BY <1>1, MappedType DEF SeqsOf
<1>4. /\ D \in Seq(Q) /\ Len(D) = Len(a) + Len(b)
      /\ \A i \in 1 .. Len(a) + Len(b) : D[i] = IF i <= Len(a) THEN A[i] ELSE B[i - Len(a)]
  <2> HIDE DEF A, B, Q
  <2>2. D \in Seq(Q) /\ Len(D) = Len(A) + Len(B)
        /\ \A i \in 1 .. Len(A) + Len(B) : D[i] = IF i <= Len(A) THEN A[i] ELSE B[i - Len(A)]
    BY <1>0, ConcatProperties
  <2> HIDE DEF D
  <2> QED
    BY <1>0, <2>2, Zenon
<1>5. ASSUME NEW i \in 1 .. Len(a) + Len(b) PROVE C[i] = D[i]
  <2>1. C[i] = F[c[i]]
    BY <1>3 DEF Mapped
  <2>2. CASE i <= Len(a)
    <3>1. i \in DOMAIN a
      BY <1>0, <2>2
    <3>2. A[i] = F[a[i]]
      BY <3>1 DEF Mapped
    <3> HIDE DEF A, B, C, D, c
    <3> QED
      BY <1>1, <1>4, <2>1, <2>2, <3>2
  <2>3. CASE ~ (i <= Len(a))
    <3> DEFINE k == i - Len(a)
    <3>0. k = i - Len(a)
      OBVIOUS
    <3>1. k \in DOMAIN b
      BY <1>0, <2>3
    <3> HIDE DEF k
    <3>2. B[k] = F[b[k]]
      BY <3>1 DEF Mapped
    <3> HIDE DEF A, B, C, D, c
    <3>3. c[i] = b[k] /\ D[i] = B[k]
      BY <1>1, <1>4, <2>3, <3>0
    <3> QED
      BY <2>1, <3>2, <3>3, Zenon
  <2> QED
    BY <2>2, <2>3
<1> HIDE DEF C, D, Q
<1>6. C = D
  BY <1>3, <1>4, <1>5, SeqEqual
<1> QED
  BY <1>6 DEF C, D

LEMMA FlatMapEmpty ==
  ASSUME NEW F
  PROVE  FlatMap(F, <<>>) = <<>>
BY FlattenEmpty DEF FlatMap, Mapped

LEMMA FlatMapType ==
  ASSUME NEW S, NEW R, NEW F, Maps(F, S, R), NEW a \in Seq(S)
  PROVE  FlatMap(F, a) \in Seq(R)
<1>1. Mapped(F, a) \in SeqsOf(R)
  BY MappedType
<1> QED
  BY <1>1, FlattenType DEF FlatMap, SeqsOf

LEMMA FlatMapConcat ==
  ASSUME NEW S, NEW R, NEW F, Maps(F, S, R), NEW a \in Seq(S), NEW b \in Seq(S)
  PROVE  FlatMap(F, a \o b) = FlatMap(F, a) \o FlatMap(F, b)
<1>1. Mapped(F, a) \in SeqsOf(R) /\ Mapped(F, b) \in SeqsOf(R)
  BY MappedType
<1>2. Mapped(F, a \o b) = Mapped(F, a) \o Mapped(F, b)
  BY MappedConcat
<1> QED
  BY <1>1, <1>2, FlattenConcat DEF FlatMap, SeqsOf

LEMMA FlatMapOne ==
  ASSUME NEW S, NEW R, NEW F, Maps(F, S, R), NEW x \in S
  PROVE  FlatMap(F, <<x>>) = F[x]
<1>1. Mapped(F, <<x>>) = <<F[x]>>
  BY DEF Mapped
<1>2. F[x] \in Seq(R)
  BY DEF Maps
<1> QED
  BY <1>1, <1>2, FlattenOne DEF FlatMap

LEMMA FlatMapAppend ==
  ASSUME NEW S, NEW R, NEW F, Maps(F, S, R), NEW a \in Seq(S), NEW x \in S
  PROVE  FlatMap(F, Append(a, x)) = FlatMap(F, a) \o F[x]
<1>1. Append(a, x) = a \o <<x>> /\ <<x>> \in Seq(S)
  BY AppendIsConcat
<1>2. FlatMap(F, a \o <<x>>) = FlatMap(F, a) \o FlatMap(F, <<x>>)
  <2>1. PICK y \in Seq(S) : y = <<x>>
    BY <1>1
  <2>2. FlatMap(F, a \o y) = FlatMap(F, a) \o FlatMap(F, y)
    BY FlatMapConcat
  <2> QED
    BY <2>1, <2>2, Zenon
<1>3. FlatMap(F, <<x>>) = F[x]
  BY FlatMapOne
<1> QED
  BY <1>1, <1>2, <1>3, Zenon

(* One map after the other is a map. *)
LEMMA FlatMapTwice ==
  ASSUME NEW S, NEW R, NEW Q, NEW F, Maps(F, S, R), NEW G, Maps(G, R, Q),
         NEW H, Maps(H, S, Q), \A x \in S : FlatMap(G, F[x]) = H[x]
  PROVE  \A a \in Seq(S) : FlatMap(G, FlatMap(F, a)) = FlatMap(H, a)
<1> DEFINE T == {a \in Seq(S) : FlatMap(G, FlatMap(F, a)) = FlatMap(H, a)}
<1>1. <<>> \in T
  BY FlatMapEmpty, EmptySeq
<1>2. ASSUME NEW a \in Seq(S), NEW x \in S, a \in T PROVE Append(a, x) \in T
  <2>1. FlatMap(F, Append(a, x)) = FlatMap(F, a) \o F[x]
    BY FlatMapAppend
  <2>2. FlatMap(F, a) \in Seq(R) /\ F[x] \in Seq(R)
    BY FlatMapType DEF Maps
  <2>3. FlatMap(G, FlatMap(F, a) \o F[x]) = FlatMap(G, FlatMap(F, a)) \o FlatMap(G, F[x])
    BY <2>2, FlatMapConcat
  <2>4. FlatMap(H, Append(a, x)) = FlatMap(H, a) \o H[x]
    BY FlatMapAppend
  <2>5. Append(a, x) \in Seq(S)
    BY AppendProperties
  <2>6. FlatMap(G, FlatMap(F, a)) = FlatMap(H, a)
    BY <1>2
  <2> QED
    BY <2>1, <2>3, <2>4, <2>5, <2>6, Zenon
<1> HIDE DEF T
<1>3. Seq(S) \subseteq T
  BY <1>1, <1>2, AllSequences
<1> QED
  BY <1>3 DEF T

-----------------------------------------------------------------------------
(* The request as maps over the conversation. *)

RequestBlock == [kind : {"text", "image", "thinking", "use", "result"}, of : Nat]
RequestMessage == [role : {"user", "assistant"}, blocks : Seq(RequestBlock)]
UpstreamMessage ==
  [role : {"user", "assistant", "tool"}, content : Seq(Nat), calls : Seq(Nat), answers : Nat]

Keep(kinds) == [b \in RequestBlock |-> IF b.kind \in kinds THEN <<b.of>> ELSE <<>>]
SaidBy(side) == [m \in RequestMessage |-> IF m.role = side THEN m.blocks ELSE <<>>]
Turn ==
  [m \in RequestMessage |->
     IF m.role = "assistant" THEN AssistantMessages(m.blocks) ELSE UserMessages(m.blocks)]
HeardFrom(side) == [o \in UpstreamMessage |-> IF o.role = side THEN o.content ELSE <<>>]
CalledBy == [o \in UpstreamMessage |-> o.calls]
KeptOf(kinds, side) == [m \in RequestMessage |-> IF m.role = side THEN Of(kinds, m.blocks) ELSE <<>>]

LEMMA OfIsMap ==
  ASSUME NEW kinds, NEW blocks \in Seq(RequestBlock)
  PROVE  Of(kinds, blocks) = FlatMap(Keep(kinds), blocks) /\ Maps(Keep(kinds), RequestBlock, Nat)
<1>1. \A i \in DOMAIN blocks : blocks[i] \in RequestBlock
  OBVIOUS
<1>2. \A i \in DOMAIN blocks :
        (IF blocks[i].kind \in kinds THEN <<blocks[i].of>> ELSE <<>>) = Keep(kinds)[blocks[i]]
  BY <1>1 DEF Keep
<1>3. [i \in DOMAIN blocks |-> IF blocks[i].kind \in kinds THEN <<blocks[i].of>> ELSE <<>>]
        = [i \in DOMAIN blocks |-> Keep(kinds)[blocks[i]]]
  BY <1>2
<1>4. Maps(Keep(kinds), RequestBlock, Nat)
  BY DEF Maps, Keep, RequestBlock
<1> QED
  BY <1>3, <1>4 DEF Of, FlatMap, Mapped

LEMMA OfType ==
  ASSUME NEW kinds, NEW blocks \in Seq(RequestBlock)
  PROVE  Of(kinds, blocks) \in Seq(Nat)
BY OfIsMap, FlatMapType

LEMMA OfEmpty ==
  ASSUME NEW kinds
  PROVE  Of(kinds, <<>>) = <<>>
<1>1. <<>> \in Seq(RequestBlock)
  OBVIOUS
<1> QED
  BY <1>1, OfIsMap, FlatMapEmpty

LEMMA OfAppend ==
  ASSUME NEW kinds, NEW blocks \in Seq(RequestBlock), NEW b \in RequestBlock
  PROVE  Of(kinds, Append(blocks, b))
           = Of(kinds, blocks) \o (IF b.kind \in kinds THEN <<b.of>> ELSE <<>>)
<1>1. Append(blocks, b) \in Seq(RequestBlock)
  BY AppendProperties
<1>2. FlatMap(Keep(kinds), Append(blocks, b)) = FlatMap(Keep(kinds), blocks) \o Keep(kinds)[b]
  BY OfIsMap, FlatMapAppend
<1>3. Keep(kinds)[b] = IF b.kind \in kinds THEN <<b.of>> ELSE <<>>
  BY DEF Keep
<1> QED
  BY <1>1, <1>2, <1>3, OfIsMap

LEMMA SaidIsMap ==
  ASSUME NEW c \in Seq(RequestMessage), NEW side
  PROVE  Said(c, side) = FlatMap(SaidBy(side), c) /\ Maps(SaidBy(side), RequestMessage, RequestBlock)
<1>1. \A i \in DOMAIN c : c[i] \in RequestMessage
  OBVIOUS
<1>2. \A i \in DOMAIN c :
        (IF c[i].role = side THEN c[i].blocks ELSE <<>>) = SaidBy(side)[c[i]]
  BY <1>1 DEF SaidBy
<1>3. [i \in DOMAIN c |-> IF c[i].role = side THEN c[i].blocks ELSE <<>>]
        = [i \in DOMAIN c |-> SaidBy(side)[c[i]]]
  BY <1>2
<1>4. Maps(SaidBy(side), RequestMessage, RequestBlock)
  <2> DEFINE B == RequestBlock
  <2> HIDE DEF B
  <2>1. ASSUME NEW m \in [role : {"user", "assistant"}, blocks : Seq(B)]
        PROVE  (IF m.role = side THEN m.blocks ELSE <<>>) \in Seq(B)
    OBVIOUS
  <2> QED
    BY <2>1 DEF Maps, SaidBy, RequestMessage, B
<1> QED
  BY <1>3, <1>4 DEF Said, FlatMap, Mapped

LEMMA SaidType ==
  ASSUME NEW c \in Seq(RequestMessage), NEW side
  PROVE  Said(c, side) \in Seq(RequestBlock)
BY SaidIsMap, FlatMapType

LEMMA SaidAppend ==
  ASSUME NEW c \in Seq(RequestMessage), NEW side, NEW m \in RequestMessage
  PROVE  Said(Append(c, m), side) = Said(c, side) \o (IF m.role = side THEN m.blocks ELSE <<>>)
<1>1. Append(c, m) \in Seq(RequestMessage)
  BY AppendProperties
<1>2. FlatMap(SaidBy(side), Append(c, m)) = FlatMap(SaidBy(side), c) \o SaidBy(side)[m]
  BY SaidIsMap, FlatMapAppend
<1>3. SaidBy(side)[m] = IF m.role = side THEN m.blocks ELSE <<>>
  BY DEF SaidBy
<1> QED
  BY <1>1, <1>2, <1>3, SaidIsMap

LEMMA OfSaid ==
  ASSUME NEW kinds, NEW side, NEW c \in Seq(RequestMessage)
  PROVE  Of(kinds, Said(c, side)) = FlatMap(KeptOf(kinds, side), c)
         /\ Maps(KeptOf(kinds, side), RequestMessage, Nat)
<1>1. Maps(KeptOf(kinds, side), RequestMessage, Nat)
  <2>1. ASSUME NEW m \in RequestMessage
        PROVE  (IF m.role = side THEN Of(kinds, m.blocks) ELSE <<>>) \in Seq(Nat)
    <3>1. m.blocks \in Seq(RequestBlock)
      BY DEF RequestMessage
    <3>2. Of(kinds, m.blocks) \in Seq(Nat)
      BY <3>1, OfType
    <3> QED
      BY <3>2
  <2> QED
    BY <2>1 DEF Maps, KeptOf
<1>2. ASSUME NEW m \in RequestMessage
      PROVE  FlatMap(Keep(kinds), SaidBy(side)[m]) = KeptOf(kinds, side)[m]
  <2>1. m.blocks \in Seq(RequestBlock)
    BY DEF RequestMessage
  <2>2. SaidBy(side)[m] = IF m.role = side THEN m.blocks ELSE <<>>
    BY DEF SaidBy
  <2>3. KeptOf(kinds, side)[m] = IF m.role = side THEN Of(kinds, m.blocks) ELSE <<>>
    BY DEF KeptOf
  <2> QED
    BY <2>1, <2>2, <2>3, OfIsMap, FlatMapEmpty, Zenon
<1>3. Maps(Keep(kinds), RequestBlock, Nat) /\ Maps(SaidBy(side), RequestMessage, RequestBlock)
  <2>1. <<>> \in Seq(RequestBlock)
    OBVIOUS
  <2> QED
    BY <2>1, OfIsMap, SaidIsMap
<1>4. FlatMap(Keep(kinds), FlatMap(SaidBy(side), c)) = FlatMap(KeptOf(kinds, side), c)
  BY <1>1, <1>2, <1>3, FlatMapTwice
<1> QED
  BY <1>1, <1>4, SaidIsMap, SaidType, OfIsMap

-----------------------------------------------------------------------------
(* What one message becomes. *)

LEMMA ToolsSent ==
  ASSUME NEW blocks \in Seq(RequestBlock)
  PROVE  LET results == Of({"result"}, blocks)
         IN  /\ ToolMessages(blocks) \in Seq(UpstreamMessage)
             /\ Len(ToolMessages(blocks)) = Len(results)
             /\ \A i \in 1 .. Len(results) :
                  ToolMessages(blocks)[i] = Message("tool", <<>>, <<>>, results[i])
<1> DEFINE results == Of({"result"}, blocks)
<1>1. results \in Seq(Nat) /\ Len(results) \in Nat /\ DOMAIN results = 1 .. Len(results)
  BY OfType, LenProperties
<1> HIDE DEF results
<1>2. ASSUME NEW i \in 1 .. Len(results)
      PROVE  Message("tool", <<>>, <<>>, results[i]) \in UpstreamMessage
  BY <1>1 DEF Message, UpstreamMessage
<1>3. [i \in 1 .. Len(results) |-> Message("tool", <<>>, <<>>, results[i])]
        \in [1 .. Len(results) -> UpstreamMessage]
  BY <1>2
<1>4. \A n \in Nat : \A f \in [1 .. n -> UpstreamMessage] : f \in Seq(UpstreamMessage) /\ Len(f) = n
  <2> DEFINE U == UpstreamMessage
  <2> HIDE DEF U
  <2>1. \A n \in Nat : \A f \in [1 .. n -> U] : f \in Seq(U) /\ Len(f) = n
    OBVIOUS
  <2> QED
    BY <2>1 DEF U
<1>5. ToolMessages(blocks) = [i \in 1 .. Len(results) |-> Message("tool", <<>>, <<>>, results[i])]
  BY <1>1 DEF ToolMessages, results
<1>6. ToolMessages(blocks) \in Seq(UpstreamMessage) /\ Len(ToolMessages(blocks)) = Len(results)
  BY <1>1, <1>3, <1>4, <1>5, Zenon
<1> QED
  BY <1>5, <1>6 DEF results

LEMMA ContentSent ==
  ASSUME NEW blocks \in Seq(RequestBlock)
  PROVE  LET parts == Of({"text", "image"}, blocks)
         IN  /\ UserContent(blocks) \in Seq(UpstreamMessage)
             /\ parts = <<>> => UserContent(blocks) = <<>>
             /\ parts # <<>> => UserContent(blocks) = <<Message("user", parts, <<>>, 0)>>
             /\ Message("user", parts, <<>>, 0) \in UpstreamMessage
<1> DEFINE parts == Of({"text", "image"}, blocks)
<1>1. parts \in Seq(Nat)
  BY OfType
<1> HIDE DEF parts
<1>2. Message("user", parts, <<>>, 0) \in UpstreamMessage
  BY <1>1 DEF Message, UpstreamMessage
<1>3. UserContent(blocks) = IF parts = <<>> THEN <<>> ELSE <<Message("user", parts, <<>>, 0)>>
  BY DEF UserContent, parts
<1>4. UserContent(blocks) \in Seq(UpstreamMessage)
  <2> DEFINE m == Message("user", parts, <<>>, 0)
  <2> DEFINE U == UpstreamMessage
  <2>1. m \in U
    BY <1>2
  <2> HIDE DEF m, U
  <2>2. <<m>> \in Seq(U) /\ <<>> \in Seq(U)
    BY <2>1
  <2> QED
    BY <1>3, <2>2 DEF m, U
<1> QED
  BY <1>2, <1>3, <1>4 DEF parts

LEMMA AssistantSent ==
  ASSUME NEW blocks \in Seq(RequestBlock)
  PROVE  LET texts == Of({"text"}, blocks)
             calls == Of({"use"}, blocks)
         IN  /\ AssistantMessages(blocks) \in Seq(UpstreamMessage)
             /\ texts = <<>> /\ calls = <<>> => AssistantMessages(blocks) = <<>>
             /\ ~ (texts = <<>> /\ calls = <<>>) =>
                  AssistantMessages(blocks) = <<Message("assistant", texts, calls, 0)>>
             /\ Message("assistant", texts, calls, 0) \in UpstreamMessage
<1> DEFINE texts == Of({"text"}, blocks)
<1> DEFINE calls == Of({"use"}, blocks)
<1>1. texts \in Seq(Nat) /\ calls \in Seq(Nat)
  BY OfType
<1>3. AssistantMessages(blocks) =
        IF texts = <<>> /\ calls = <<>> THEN <<>> ELSE <<Message("assistant", texts, calls, 0)>>
  BY DEF AssistantMessages
<1> HIDE DEF texts, calls
<1>2. Message("assistant", texts, calls, 0) \in UpstreamMessage
  BY <1>1 DEF Message, UpstreamMessage
<1>4. AssistantMessages(blocks) \in Seq(UpstreamMessage)
  <2> DEFINE m == Message("assistant", texts, calls, 0)
  <2> DEFINE U == UpstreamMessage
  <2>1. m \in U
    BY <1>2
  <2> HIDE DEF m, U
  <2>2. <<m>> \in Seq(U) /\ <<>> \in Seq(U)
    BY <2>1
  <2> QED
    BY <1>3, <2>2 DEF m, U
<1> QED
  BY <1>2, <1>3, <1>4 DEF texts, calls

LEMMA UserSent ==
  ASSUME NEW blocks \in Seq(RequestBlock)
  PROVE  UserMessages(blocks) \in Seq(UpstreamMessage)
BY ToolsSent, ContentSent, ConcatProperties DEF UserMessages

LEMMA TranslationIsMap ==
  ASSUME NEW c \in Seq(RequestMessage)
  PROVE  Translation(c) = FlatMap(Turn, c) /\ Maps(Turn, RequestMessage, UpstreamMessage)
<1>1. \A i \in DOMAIN c : c[i] \in RequestMessage
  OBVIOUS
<1>2. \A i \in DOMAIN c :
        (IF c[i].role = "assistant" THEN AssistantMessages(c[i].blocks) ELSE UserMessages(c[i].blocks))
          = Turn[c[i]]
  BY <1>1 DEF Turn
<1>3. [i \in DOMAIN c |->
         IF c[i].role = "assistant" THEN AssistantMessages(c[i].blocks) ELSE UserMessages(c[i].blocks)]
        = [i \in DOMAIN c |-> Turn[c[i]]]
  BY <1>2
<1>4. Maps(Turn, RequestMessage, UpstreamMessage)
  <2>1. ASSUME NEW m \in RequestMessage
        PROVE  (IF m.role = "assistant" THEN AssistantMessages(m.blocks) ELSE UserMessages(m.blocks))
                 \in Seq(UpstreamMessage)
    <3>1. m.blocks \in Seq(RequestBlock)
      BY DEF RequestMessage
    <3> QED
      BY <3>1, AssistantSent, UserSent
  <2> QED
    BY <2>1 DEF Maps, Turn
<1> QED
  BY <1>3, <1>4 DEF Translation, FlatMap, Mapped

LEMMA TranslationType ==
  ASSUME NEW c \in Seq(RequestMessage)
  PROVE  Translation(c) \in Seq(UpstreamMessage)
BY TranslationIsMap, FlatMapType

LEMMA TranslationAppend ==
  ASSUME NEW c \in Seq(RequestMessage), NEW m \in RequestMessage
  PROVE  Translation(Append(c, m)) = Translation(c) \o
           (IF m.role = "assistant" THEN AssistantMessages(m.blocks) ELSE UserMessages(m.blocks))
<1>1. Append(c, m) \in Seq(RequestMessage)
  BY AppendProperties
<1>2. FlatMap(Turn, Append(c, m)) = FlatMap(Turn, c) \o Turn[m]
  BY TranslationIsMap, FlatMapAppend
<1>3. Turn[m] = IF m.role = "assistant" THEN AssistantMessages(m.blocks) ELSE UserMessages(m.blocks)
  BY DEF Turn
<1> QED
  BY <1>1, <1>2, <1>3, TranslationIsMap

-----------------------------------------------------------------------------
(* What arrives. *)

LEMMA HeardIsMap ==
  ASSUME NEW out \in Seq(UpstreamMessage), NEW side
  PROVE  Heard(out, side) = FlatMap(HeardFrom(side), out) /\ Maps(HeardFrom(side), UpstreamMessage, Nat)
<1>1. \A i \in DOMAIN out : out[i] \in UpstreamMessage
  OBVIOUS
<1>2. \A i \in DOMAIN out :
        (IF out[i].role = side THEN out[i].content ELSE <<>>) = HeardFrom(side)[out[i]]
  BY <1>1 DEF HeardFrom
<1>3. [i \in DOMAIN out |-> IF out[i].role = side THEN out[i].content ELSE <<>>]
        = [i \in DOMAIN out |-> HeardFrom(side)[out[i]]]
  BY <1>2
<1>4. Maps(HeardFrom(side), UpstreamMessage, Nat)
  BY DEF Maps, HeardFrom, UpstreamMessage
<1> QED
  BY <1>3, <1>4 DEF Heard, FlatMap, Mapped

LEMMA CalledIsMap ==
  ASSUME NEW out \in Seq(UpstreamMessage)
  PROVE  Called(out) = FlatMap(CalledBy, out) /\ Maps(CalledBy, UpstreamMessage, Nat)
<1>1. \A i \in DOMAIN out : out[i] \in UpstreamMessage
  OBVIOUS
<1>2. \A i \in DOMAIN out : out[i].calls = CalledBy[out[i]]
  BY <1>1 DEF CalledBy
<1>3. [i \in DOMAIN out |-> out[i].calls] = [i \in DOMAIN out |-> CalledBy[out[i]]]
  BY <1>2
<1>4. Maps(CalledBy, UpstreamMessage, Nat)
  BY DEF Maps, CalledBy, UpstreamMessage
<1> QED
  BY <1>3, <1>4 DEF Called, FlatMap, Mapped

(* A map that makes nothing of any element makes nothing. *)
LEMMA FlatMapNothing ==
  ASSUME NEW S, NEW R, NEW F, Maps(F, S, R)
  PROVE  \A a \in Seq(S) : (\A i \in 1 .. Len(a) : F[a[i]] = <<>>) => FlatMap(F, a) = <<>>
<1> DEFINE T == {a \in Seq(S) : (\A i \in 1 .. Len(a) : F[a[i]] = <<>>) => FlatMap(F, a) = <<>>}
<1>1. <<>> \in T
  BY FlatMapEmpty, EmptySeq
<1>2. ASSUME NEW a \in Seq(S), NEW x \in S, a \in T PROVE Append(a, x) \in T
  <2> SUFFICES ASSUME \A i \in 1 .. Len(Append(a, x)) : F[Append(a, x)[i]] = <<>>
               PROVE  FlatMap(F, Append(a, x)) = <<>>
    BY AppendProperties
  <2>1. /\ Len(Append(a, x)) = Len(a) + 1 /\ Len(a) \in Nat
        /\ Append(a, x)[Len(a) + 1] = x /\ \A i \in 1 .. Len(a) : Append(a, x)[i] = a[i]
    BY AppendProperties
  <2>2. \A i \in 1 .. Len(a) : F[a[i]] = <<>>
    BY <2>1
  <2>3. F[x] = <<>>
    BY <2>1
  <2>4. FlatMap(F, a) = <<>>
    BY <1>2, <2>2
  <2>5. FlatMap(F, Append(a, x)) = FlatMap(F, a) \o F[x]
    BY FlatMapAppend
  <2> QED
    BY <2>3, <2>4, <2>5
<1> HIDE DEF T
<1>3. Seq(S) \subseteq T
  BY <1>1, <1>2, AllSequences
<1> QED
  BY <1>3 DEF T

LEMMA HeardTurn ==
  ASSUME NEW m \in RequestMessage
  PROVE  /\ FlatMap(HeardFrom("user"), Turn[m]) = KeptOf({"text", "image"}, "user")[m]
         /\ FlatMap(HeardFrom("assistant"), Turn[m]) = KeptOf({"text"}, "assistant")[m]
         /\ FlatMap(CalledBy, Turn[m]) = KeptOf({"use"}, "assistant")[m]
<1>0. m.blocks \in Seq(RequestBlock) /\ m.role \in {"user", "assistant"}
  BY DEF RequestMessage
<1> DEFINE H(side) == HeardFrom(side)
<1> DEFINE parts == Of({"text", "image"}, m.blocks)
<1> DEFINE results == Of({"result"}, m.blocks)
<1> DEFINE texts == Of({"text"}, m.blocks)
<1> DEFINE calls == Of({"use"}, m.blocks)
<1>1. /\ Maps(H("user"), UpstreamMessage, Nat) /\ Maps(H("assistant"), UpstreamMessage, Nat)
      /\ Maps(CalledBy, UpstreamMessage, Nat)
  <2>1. <<>> \in Seq(UpstreamMessage)
    OBVIOUS
  <2> QED
    BY <2>1, HeardIsMap, CalledIsMap
<1>2. /\ KeptOf({"text", "image"}, "user")[m] = IF m.role = "user" THEN parts ELSE <<>>
      /\ KeptOf({"text"}, "assistant")[m] = IF m.role = "assistant" THEN texts ELSE <<>>
      /\ KeptOf({"use"}, "assistant")[m] = IF m.role = "assistant" THEN calls ELSE <<>>
  BY DEF KeptOf
<1>3. Turn[m] = IF m.role = "assistant" THEN AssistantMessages(m.blocks) ELSE UserMessages(m.blocks)
  BY DEF Turn
<1>4. ASSUME NEW f \in {H("user"), H("assistant"), CalledBy}
      PROVE  Maps(f, UpstreamMessage, Nat)
  BY <1>1
<1>5. CASE m.role = "assistant"
  <2> DEFINE o == Message("assistant", texts, calls, 0)
  <2>1. (Turn[m] = <<>> /\ texts = <<>> /\ calls = <<>>) \/ Turn[m] = <<o>>
    BY <1>0, <1>3, <1>5, AssistantSent
  <2>2. o \in UpstreamMessage
    BY <1>0, AssistantSent
  <2>3. H("user")[o] = <<>> /\ H("assistant")[o] = texts /\ CalledBy[o] = calls
    <3>1. o.role = "assistant" /\ o.content = texts /\ o.calls = calls
      BY DEF Message
    <3> HIDE DEF o
    <3> QED
      BY <2>2, <3>1 DEF HeardFrom, CalledBy
  <2> HIDE DEF o, H
  <2>4. ASSUME NEW f \in {H("user"), H("assistant"), CalledBy}
        PROVE  FlatMap(f, <<o>>) = f[o]
    BY <1>4, <2>2, FlatMapOne
  <2>5. CASE Turn[m] = <<o>>
    BY <1>2, <1>5, <2>3, <2>4, <2>5 DEF H
  <2>6. CASE Turn[m] = <<>> /\ texts = <<>> /\ calls = <<>>
    BY <1>2, <1>5, <2>6, FlatMapEmpty
  <2> QED
    BY <2>1, <2>5, <2>6
<1>6. CASE m.role = "user"
  <2> DEFINE tools == ToolMessages(m.blocks)
  <2> DEFINE spoken == UserContent(m.blocks)
  <2>1. Turn[m] = tools \o spoken
    BY <1>3, <1>6 DEF UserMessages
  <2>2. tools \in Seq(UpstreamMessage) /\ spoken \in Seq(UpstreamMessage)
    BY <1>0, ToolsSent, ContentSent
  <2>3. ASSUME NEW f \in {H("user"), H("assistant"), CalledBy}
        PROVE  FlatMap(f, tools \o spoken) = FlatMap(f, spoken) /\ FlatMap(f, spoken) \in Seq(Nat)
    <3>1. \A i \in 1 .. Len(tools) : f[tools[i]] = <<>>
      <4> SUFFICES ASSUME NEW i \in 1 .. Len(tools) PROVE f[tools[i]] = <<>>
        OBVIOUS
      <4>1. tools[i] \in UpstreamMessage
        BY <2>2, ElementOfSeq
      <4>2. tools[i].role = "tool" /\ tools[i].calls = <<>>
        <5>1. Len(tools) = Len(results) /\ \A k \in 1 .. Len(results) :
                tools[k] = Message("tool", <<>>, <<>>, results[k])
          BY <1>0, ToolsSent
        <5> HIDE DEF tools
        <5>2. tools[i] = Message("tool", <<>>, <<>>, results[i])
          BY <5>1
        <5> QED
          BY <5>2 DEF Message
      <4> HIDE DEF tools
      <4> QED
        BY <4>1, <4>2 DEF HeardFrom, CalledBy
    <3> HIDE DEF tools, spoken, H
    <3>2. FlatMap(f, tools) = <<>>
      BY <1>4, <2>2, <3>1, FlatMapNothing
    <3>3. FlatMap(f, tools \o spoken) = FlatMap(f, tools) \o FlatMap(f, spoken)
      <4> DEFINE U == UpstreamMessage
      <4>1. Maps(f, U, Nat) /\ tools \in Seq(U) /\ spoken \in Seq(U)
        BY <1>4, <2>2
      <4> HIDE DEF U
      <4> QED
        BY <4>1, FlatMapConcat
    <3>4. FlatMap(f, spoken) \in Seq(Nat)
      BY <1>4, <2>2, FlatMapType
    <3> QED
      BY <3>2, <3>3, <3>4, ConcatEmptySeq
  <2> DEFINE o == Message("user", parts, <<>>, 0)
  <2>4. (spoken = <<>> /\ parts = <<>>) \/ spoken = <<o>>
    BY <1>0, ContentSent
  <2>5. o \in UpstreamMessage
    BY <1>0, ContentSent
  <2>6. H("user")[o] = parts /\ H("assistant")[o] = <<>> /\ CalledBy[o] = <<>>
    <3>1. o.role = "user" /\ o.content = parts /\ o.calls = <<>>
      BY DEF Message
    <3> HIDE DEF o
    <3> QED
      BY <2>5, <3>1 DEF HeardFrom, CalledBy
  <2> HIDE DEF o, H, tools, spoken
  <2>7. ASSUME NEW f \in {H("user"), H("assistant"), CalledBy}
        PROVE  FlatMap(f, <<o>>) = f[o]
    BY <1>4, <2>5, FlatMapOne
  <2>8. CASE spoken = <<o>>
    BY <1>2, <1>6, <2>1, <2>3, <2>6, <2>7, <2>8 DEF H
  <2>9. CASE spoken = <<>> /\ parts = <<>>
    BY <1>2, <1>6, <2>1, <2>3, <2>9, FlatMapEmpty DEF H
  <2> QED
    BY <2>4, <2>8, <2>9
<1> QED
  BY <1>0, <1>5, <1>6

(* Whatever was said and called arrives, once and in order. *)
LEMMA AllArrives ==
  ASSUME NEW c \in Seq(RequestMessage)
  PROVE  /\ Heard(Translation(c), "user") = Of({"text", "image"}, Said(c, "user"))
         /\ Heard(Translation(c), "assistant") = Of({"text"}, Said(c, "assistant"))
         /\ Called(Translation(c)) = Of({"use"}, Said(c, "assistant"))
<1>1. Translation(c) = FlatMap(Turn, c) /\ Maps(Turn, RequestMessage, UpstreamMessage)
      /\ Translation(c) \in Seq(UpstreamMessage)
  BY TranslationIsMap, TranslationType
<1>2. /\ Maps(HeardFrom("user"), UpstreamMessage, Nat)
      /\ Maps(HeardFrom("assistant"), UpstreamMessage, Nat)
      /\ Maps(CalledBy, UpstreamMessage, Nat)
      /\ Heard(Translation(c), "user") = FlatMap(HeardFrom("user"), Translation(c))
      /\ Heard(Translation(c), "assistant") = FlatMap(HeardFrom("assistant"), Translation(c))
      /\ Called(Translation(c)) = FlatMap(CalledBy, Translation(c))
  BY <1>1, HeardIsMap, CalledIsMap
<1>3. \A kinds, side : /\ Of(kinds, Said(c, side)) = FlatMap(KeptOf(kinds, side), c)
                       /\ Maps(KeptOf(kinds, side), RequestMessage, Nat)
  BY OfSaid
<1>4. FlatMap(HeardFrom("user"), FlatMap(Turn, c)) = FlatMap(KeptOf({"text", "image"}, "user"), c)
  BY <1>1, <1>2, <1>3, HeardTurn, FlatMapTwice
<1>5. FlatMap(HeardFrom("assistant"), FlatMap(Turn, c)) = FlatMap(KeptOf({"text"}, "assistant"), c)
  BY <1>1, <1>2, <1>3, HeardTurn, FlatMapTwice
<1>6. FlatMap(CalledBy, FlatMap(Turn, c)) = FlatMap(KeptOf({"use"}, "assistant"), c)
  BY <1>1, <1>2, <1>3, HeardTurn, FlatMapTwice
<1> QED
  BY <1>1, <1>2, <1>3, <1>4, <1>5, <1>6, Zenon

-----------------------------------------------------------------------------
(* What an upstream takes. *)

TakesAt(out, i) ==
  /\ i + Len(out[i].calls) <= Len(out)
  /\ \A k \in 1 .. Len(out[i].calls) : out[i + k].role = "tool"
  /\ { out[i + k].answers : k \in 1 .. Len(out[i].calls) } = ToSet(out[i].calls)
  /\ out[i].role = "tool" => \E j \in 1 .. i - 1 : i <= j + Len(out[j].calls)
  /\ out[i].role # "tool" => out[i].content # <<>> \/ out[i].calls # <<>>

LEMMA TakesEach ==
  ASSUME NEW out \in Seq(UpstreamMessage)
  PROVE  UpstreamTakes(out) <=> \A i \in 1 .. Len(out) : TakesAt(out, i)
<1>1. DOMAIN out = 1 .. Len(out) /\ Len(out) \in Nat
  BY LenProperties
<1>2. \A i \in 1 .. Len(out) : out[i] \in UpstreamMessage /\ Len(out[i].calls) \in Nat
  <2>1. \A i \in 1 .. Len(out) : out[i] \in UpstreamMessage
    BY ElementOfSeq
  <2>2. \A m \in UpstreamMessage : m.calls \in Seq(Nat)
    BY DEF UpstreamMessage
  <2>3. \A s \in Seq(Nat) : Len(s) \in Nat
    BY LenProperties
  <2> QED
    BY <2>1, <2>2, <2>3
<1> DEFINE After(i) == SubSeq(out, i + 1, i + Len(out[i].calls))
<1>3. ASSUME NEW i \in 1 .. Len(out), i + Len(out[i].calls) <= Len(out)
      PROVE  /\ DOMAIN After(i) = 1 .. Len(out[i].calls)
             /\ \A k \in 1 .. Len(out[i].calls) : After(i)[k] = out[i + k]
  <2>1. PICK n \in Nat : n = Len(out[i].calls)
    BY <1>2
  <2>2. \A j \in i + 1 .. i + n : out[j] \in UpstreamMessage
    BY <1>1, <1>2, <1>3, <2>1
  <2>3. i + 1 \in Int /\ i + n \in Int
    BY <1>1
  <2>4. /\ After(i) \in Seq(UpstreamMessage)
        /\ Len(After(i)) = IF i + 1 <= i + n THEN i + n - (i + 1) + 1 ELSE 0
        /\ \A k \in 1 .. i + n - (i + 1) + 1 : After(i)[k] = out[i + 1 + k - 1]
    <3> DEFINE p == i + 1
    <3> DEFINE q == i + n
    <3> DEFINE U == UpstreamMessage
    <3>1. p \in Int /\ q \in Int /\ \A j \in p .. q : out[j] \in U
      BY <2>2, <2>3
    <3> HIDE DEF p, q, U
    <3>2. /\ SubSeq(out, p, q) \in Seq(U)
          /\ Len(SubSeq(out, p, q)) = IF p <= q THEN q - p + 1 ELSE 0
          /\ \A k \in 1 .. q - p + 1 : SubSeq(out, p, q)[k] = out[p + k - 1]
      BY <3>1, SubSeqProperties
    <3> QED
      BY <2>1, <3>2 DEF p, q, U
  <2>5. Len(After(i)) = n /\ i + n - (i + 1) + 1 = n
    BY <1>1, <2>1, <2>4
  <2>6. DOMAIN After(i) = 1 .. n
    BY <2>4, <2>5, LenProperties
  <2> HIDE DEF After
  <2>7. \A k \in 1 .. n : After(i)[k] = out[i + 1 + k - 1] /\ i + 1 + k - 1 = i + k
    BY <1>1, <2>4, <2>5
  <2> QED
    BY <2>1, <2>6, <2>7
<1>4. UpstreamTakes(out) <=>
        \A i \in 1 .. Len(out) :
          /\ i + Len(out[i].calls) <= Len(out)
          /\ \A j \in DOMAIN After(i) : After(i)[j].role = "tool"
          /\ { After(i)[j].answers : j \in DOMAIN After(i) } = ToSet(out[i].calls)
          /\ out[i].role = "tool" => \E j \in 1 .. i - 1 : i <= j + Len(out[j].calls)
          /\ out[i].role # "tool" => out[i].content # <<>> \/ out[i].calls # <<>>
  BY <1>1, Zenon DEF UpstreamTakes
<1> HIDE DEF After
<1>5. ASSUME NEW i \in 1 .. Len(out), i + Len(out[i].calls) <= Len(out)
      PROVE  /\ (\A j \in DOMAIN After(i) : After(i)[j].role = "tool")
                  <=> \A k \in 1 .. Len(out[i].calls) : out[i + k].role = "tool"
             /\ { After(i)[j].answers : j \in DOMAIN After(i) }
                  = { out[i + k].answers : k \in 1 .. Len(out[i].calls) }
  <2> DEFINE n == Len(out[i].calls)
  <2>1. DOMAIN After(i) = 1 .. n /\ \A k \in 1 .. n : After(i)[k] = out[i + k]
    BY <1>3, <1>5
  <2> HIDE DEF n
  <2>2. { After(i)[j].answers : j \in DOMAIN After(i) } = { out[i + k].answers : k \in 1 .. n }
    BY <2>1
  <2>3. (\A j \in DOMAIN After(i) : After(i)[j].role = "tool")
          <=> \A k \in 1 .. n : out[i + k].role = "tool"
    BY <2>1
  <2> QED
    BY <2>2, <2>3 DEF n
<1> QED
  BY <1>4, <1>5 DEF TakesAt

LEMMA ConcatTakes ==
  ASSUME NEW o1 \in Seq(UpstreamMessage), NEW o2 \in Seq(UpstreamMessage),
         UpstreamTakes(o1), UpstreamTakes(o2)
  PROVE  UpstreamTakes(o1 \o o2)
<1> DEFINE out == o1 \o o2
<1>1. PICK n \in Nat : n = Len(o1)
  BY LenProperties
<1>2. PICK m \in Nat : m = Len(o2)
  BY LenProperties
<1>3. /\ out \in Seq(UpstreamMessage) /\ Len(out) = n + m
      /\ \A i \in 1 .. n + m : out[i] = IF i <= n THEN o1[i] ELSE o2[i - n]
  BY <1>1, <1>2, ConcatProperties
<1>4. \A i \in 1 .. n : Len(o1[i].calls) \in Nat
  BY <1>1, ElementOfSeq, LenProperties DEF UpstreamMessage
<1>5. \A i \in 1 .. m : Len(o2[i].calls) \in Nat
  BY <1>2, ElementOfSeq, LenProperties DEF UpstreamMessage
<1>6. \A i \in 1 .. n : TakesAt(o1, i)
  BY <1>1, TakesEach
<1>7. \A i \in 1 .. m : TakesAt(o2, i)
  BY <1>2, TakesEach
<1> HIDE DEF out
<1>8. ASSUME NEW i \in 1 .. n PROVE TakesAt(out, i)
  <2>1. out[i] = o1[i] /\ i \in 1 .. n + m
    BY <1>3
  <2>2. PICK k \in Nat : k = Len(o1[i].calls)
    BY <1>4
  <2>3. i + k <= n
    BY <1>1, <1>6, <2>2 DEF TakesAt
  <2>4. \A j \in 1 .. k : out[i + j] = o1[i + j]
    <3> TAKE j \in 1 .. k
    <3> DEFINE p == i + j
    <3>1. p \in 1 .. n + m /\ p <= n
      BY <2>3
    <3> HIDE DEF p
    <3>2. out[p] = o1[p]
      BY <1>3, <3>1
    <3> QED
      BY <3>2 DEF p
  <2>5. (\A j \in 1 .. k : o1[i + j].role = "tool")
        /\ { o1[i + j].answers : j \in 1 .. k } = ToSet(o1[i].calls)
    BY <1>6, <2>2 DEF TakesAt
  <2>6. (\A j \in 1 .. k : out[i + j].role = "tool")
        /\ { out[i + j].answers : j \in 1 .. k } = ToSet(o1[i].calls)
    BY <2>4, <2>5
  <2>7. o1[i].role = "tool" => \E j \in 1 .. i - 1 : i <= j + Len(out[j].calls)
    <3> SUFFICES ASSUME o1[i].role = "tool" PROVE \E j \in 1 .. i - 1 : i <= j + Len(out[j].calls)
      OBVIOUS
    <3>1. PICK j \in 1 .. i - 1 : i <= j + Len(o1[j].calls)
      BY <1>6 DEF TakesAt
    <3>2. j \in 1 .. n + m /\ j <= n
      OBVIOUS
    <3>3. out[j] = o1[j]
      BY <1>3, <3>2
    <3> QED
      BY <3>1, <3>3
  <2>8. o1[i].role # "tool" => o1[i].content # <<>> \/ o1[i].calls # <<>>
    BY <1>6 DEF TakesAt
  <2>9. i + k <= Len(out)
    BY <1>3, <2>3
  <2> QED
    BY <2>1, <2>2, <2>6, <2>7, <2>8, <2>9 DEF TakesAt
<1>9. ASSUME NEW i \in n + 1 .. n + m PROVE TakesAt(out, i)
  <2>1. PICK q \in 1 .. m : q = i - n
    OBVIOUS
  <2>0. i \in 1 .. n + m /\ ~ (i <= n) /\ i = n + q
    BY <2>1
  <2>2. out[i] = o2[q] /\ i = n + q
    <3>1. out[i] = o2[i - n]
      BY <1>3, <2>0
    <3> QED
      BY <2>0, <2>1, <3>1, Zenon
  <2>3. PICK k \in Nat : k = Len(o2[q].calls)
    BY <1>5
  <2>4. q + k <= m
    BY <1>2, <1>7, <2>3 DEF TakesAt
  <2>5. \A j \in 1 .. k : out[i + j] = o2[q + j]
    <3> TAKE j \in 1 .. k
    <3> DEFINE p == i + j
    <3> DEFINE r == q + j
    <3>1. p \in 1 .. n + m /\ ~ (p <= n) /\ p - n = r
      BY <2>1, <2>4
    <3> HIDE DEF p, r
    <3>2. out[p] = o2[r]
      BY <1>3, <3>1
    <3> QED
      BY <3>2 DEF p, r
  <2>6. (\A j \in 1 .. k : o2[q + j].role = "tool")
        /\ { o2[q + j].answers : j \in 1 .. k } = ToSet(o2[q].calls)
    BY <1>7, <2>3 DEF TakesAt
  <2>7. (\A j \in 1 .. k : out[i + j].role = "tool")
        /\ { out[i + j].answers : j \in 1 .. k } = ToSet(o2[q].calls)
    BY <2>5, <2>6
  <2>8. o2[q].role = "tool" => \E j \in 1 .. i - 1 : i <= j + Len(out[j].calls)
    <3> SUFFICES ASSUME o2[q].role = "tool" PROVE \E j \in 1 .. i - 1 : i <= j + Len(out[j].calls)
      OBVIOUS
    <3>1. PICK j \in 1 .. q - 1 : q <= j + Len(o2[j].calls)
      BY <1>7 DEF TakesAt
    <3> DEFINE p == n + j
    <3>2. p \in 1 .. n + m /\ ~ (p <= n) /\ p - n = j /\ p \in 1 .. i - 1 /\ j \in 1 .. m
      BY <2>2
    <3>4. PICK l \in Nat : l = Len(o2[j].calls)
      BY <1>5, <3>2
    <3>5. i <= p + l
      <4>1. q <= j + l /\ i = n + q
        BY <2>2, <3>1, <3>4
      <4> QED
        BY <4>1
    <3> HIDE DEF p
    <3>3. out[p] = o2[j]
      BY <1>3, <3>2
    <3> QED
      BY <3>2, <3>3, <3>4, <3>5
  <2>9. o2[q].role # "tool" => o2[q].content # <<>> \/ o2[q].calls # <<>>
    BY <1>7 DEF TakesAt
  <2>10. i + k <= Len(out)
    BY <1>3, <2>2, <2>4
  <2> QED
    BY <2>2, <2>3, <2>7, <2>8, <2>9, <2>10 DEF TakesAt
<1>10. \A i \in 1 .. Len(out) : i \in 1 .. n \/ i \in n + 1 .. n + m
  BY <1>3
<1>11. \A i \in 1 .. Len(out) : TakesAt(out, i)
  BY <1>8, <1>9, <1>10
<1>12. UpstreamTakes(out)
  BY <1>3, <1>11, TakesEach
<1> QED
  BY <1>12 DEF out

(* What is in both once is as long. *)
LEMMA SameLength ==
  ASSUME NEW S, NEW s \in Seq(S), NEW t \in Seq(S), IsInjective(s), IsInjective(t),
         ToSet(s) = ToSet(t)
  PROVE  Len(s) = Len(t)
<1>1. ASSUME NEW r \in Seq(S), IsInjective(r)
      PROVE  Cardinality(ToSet(r)) = Len(r)
  <2>1. DOMAIN r = 1 .. Len(r) /\ Len(r) \in Nat
    BY LenProperties
  <2>2. r \in [1 .. Len(r) -> ToSet(r)]
    BY <2>1 DEF ToSet
  <2>3. r \in Injection(1 .. Len(r), ToSet(r))
    BY <1>1, <2>2 DEF Injection, IsInjective
  <2>4. r \in Surjection(1 .. Len(r), ToSet(r))
    BY <2>1, <2>2 DEF Surjection, ToSet
  <2>5. ExistsBijection(1 .. Len(r), ToSet(r))
    BY <2>3, <2>4 DEF ExistsBijection, Bijection
  <2> QED
    BY <2>1, <2>5, FS_CountingElements
<1> QED
  BY <1>1

LEMMA OneIsSeq ==
  ASSUME NEW S, NEW x \in S
  PROVE  \E y \in Seq(S) : y = <<x>> /\ Len(y) = 1 /\ y[1] = x
<1>1. <<x>> \in Seq(S) /\ Len(<<x>>) = 1 /\ <<x>>[1] = x
  OBVIOUS
<1> QED
  BY <1>1, Zenon

(* The words of the user. *)
LEMMA ContentTakes ==
  ASSUME NEW blocks \in Seq(RequestBlock)
  PROVE  UpstreamTakes(UserContent(blocks)) /\ UserContent(blocks) \in Seq(UpstreamMessage)
<1> DEFINE parts == Of({"text", "image"}, blocks)
<1> DEFINE u == Message("user", parts, <<>>, 0)
<1>1. UserContent(blocks) \in Seq(UpstreamMessage)
  BY ContentSent
<1>2. CASE parts = <<>>
  <2>1. UserContent(blocks) = <<>>
    BY <1>2, ContentSent
  <2> QED
    <3>1. \A i \in 1 .. Len(UserContent(blocks)) : TakesAt(UserContent(blocks), i)
      BY <2>1
    <3> QED
      BY <1>1, <3>1, TakesEach
<1>3. CASE parts # <<>>
  <2>1. UserContent(blocks) = <<u>>
    BY <1>3, ContentSent
  <2>2. u.calls = <<>> /\ u.role = "user" /\ u.content # <<>>
    BY <1>3 DEF Message
  <2> HIDE DEF u
  <2>3. TakesAt(<<u>>, 1)
    <3>1. <<u>>[1] = u /\ Len(<<u>>) = 1 /\ Len(u.calls) = 0 /\ ToSet(u.calls) = {}
      BY <2>2 DEF ToSet
    <3> QED
      BY <2>2, <3>1 DEF TakesAt
  <2>4. \A i \in 1 .. Len(<<u>>) : TakesAt(<<u>>, i)
    BY <2>3
  <2> QED
    BY <1>1, <2>1, <2>4, TakesEach
<1> QED
  BY <1>1, <1>2, <1>3

LEMMA NoResults ==
  ASSUME NEW blocks \in Seq(RequestBlock), ToSet(Of({"result"}, blocks)) = {}
  PROVE  UserMessages(blocks) = UserContent(blocks)
<1>1. Of({"result"}, blocks) \in Seq(Nat)
  BY OfType
<1>2. Len(Of({"result"}, blocks)) = 0
  <2> DEFINE r == Of({"result"}, blocks)
  <2>1. r \in Seq(Nat) /\ ToSet(r) = {}
    BY <1>1
  <2> HIDE DEF r
  <2>4. DOMAIN r = 1 .. Len(r) /\ Len(r) \in Nat
    BY <2>1, LenProperties
  <2>5. ASSUME NEW i \in DOMAIN r PROVE FALSE
    <3>1. r[i] \in ToSet(r)
      BY DEF ToSet
    <3> QED
      BY <2>1, <3>1
  <2>2. DOMAIN r = 1 .. Len(r) /\ Len(r) \in Nat /\ DOMAIN r = {}
    BY <2>4, <2>5
  <2>3. Len(r) = 0
    BY <2>2
  <2> QED
    BY <2>3 DEF r
<1>3. ToolMessages(blocks) \in Seq(UpstreamMessage) /\ Len(ToolMessages(blocks)) = 0
  BY <1>2, ToolsSent
<1>4. ToolMessages(blocks) = <<>>
  BY <1>3
<1>5. UserContent(blocks) \in Seq(UpstreamMessage)
  BY ContentSent
<1> QED
  BY <1>4, <1>5, ConcatEmptySeq DEF UserMessages

(* Calls and their results, and what the user says with them. *)
LEMMA AnsweredTakes ==
  ASSUME NEW ab \in Seq(RequestBlock), NEW ub \in Seq(RequestBlock),
         IsInjective(Of({"use"}, ab)), IsInjective(Of({"result"}, ub)),
         ToSet(Of({"result"}, ub)) = ToSet(Of({"use"}, ab))
  PROVE  UpstreamTakes(AssistantMessages(ab) \o UserMessages(ub))
<1> DEFINE texts == Of({"text"}, ab)
<1> DEFINE calls == Of({"use"}, ab)
<1> DEFINE results == Of({"result"}, ub)
<1> DEFINE o == Message("assistant", texts, calls, 0)
<1> DEFINE tools == ToolMessages(ub)
<1> DEFINE spoken == UserContent(ub)
<1>0. calls \in Seq(Nat) /\ results \in Seq(Nat) /\ texts \in Seq(Nat)
  BY OfType
<1>1. spoken \in Seq(UpstreamMessage) /\ UpstreamTakes(spoken)
  BY ContentTakes
<1>2. CASE texts = <<>> /\ calls = <<>>
  <2>1. AssistantMessages(ab) = <<>>
    BY <1>2, AssistantSent
  <2>2. ToSet(results) = {}
    BY <1>2 DEF ToSet
  <2>3. UserMessages(ub) = spoken
    BY <2>2, NoResults
  <2> QED
    BY <1>1, <2>1, <2>3, ConcatEmptySeq
<1>3. CASE ~ (texts = <<>> /\ calls = <<>>)
  <2>1. AssistantMessages(ab) = <<o>> /\ o \in UpstreamMessage
    BY <1>3, AssistantSent
  <2>2. PICK n \in Nat : n = Len(calls)
    BY <1>0, LenProperties
  <2>3. Len(results) = n
    <3> HIDE DEF results, calls
    <3> QED
      BY <1>0, <2>2, SameLength DEF results, calls
  <2>4. tools \in Seq(UpstreamMessage) /\ Len(tools) = n
        /\ \A k \in 1 .. n : tools[k] = Message("tool", <<>>, <<>>, results[k])
    BY <2>3, ToolsSent
  <2>o. o.role = "assistant" /\ o.calls = calls /\ (o.content # <<>> \/ o.calls # <<>>)
    BY <1>3 DEF Message
  <2> DEFINE first == <<o>> \o tools
  <2> HIDE DEF o, tools, spoken, texts, calls, results
  <2>5. /\ first \in Seq(UpstreamMessage) /\ Len(first) = n + 1
        /\ first[1] = o
        /\ \A k \in 1 .. n : first[1 + k] = tools[k]
    <3>1. PICK y \in Seq(UpstreamMessage) : y = <<o>> /\ Len(y) = 1 /\ y[1] = o
      BY <2>1, OneIsSeq
    <3>2. Len(y) = 1 /\ y[1] = o
      BY <3>1
    <3>3. /\ y \o tools \in Seq(UpstreamMessage) /\ Len(y \o tools) = 1 + n
          /\ \A i \in 1 .. 1 + n : (y \o tools)[i] = IF i <= 1 THEN y[i] ELSE tools[i - 1]
      <4>1. /\ y \o tools \in Seq(UpstreamMessage) /\ Len(y \o tools) = Len(y) + Len(tools)
            /\ \A i \in 1 .. Len(y) + Len(tools) :
                 (y \o tools)[i] = IF i <= Len(y) THEN y[i] ELSE tools[i - Len(y)]
        <5> DEFINE U == UpstreamMessage
        <5>1. y \in Seq(U) /\ tools \in Seq(U)
          BY <2>4
        <5> HIDE DEF U
        <5>2. /\ y \o tools \in Seq(U) /\ Len(y \o tools) = Len(y) + Len(tools)
              /\ \A i \in 1 .. Len(y) + Len(tools) :
                   (y \o tools)[i] = IF i <= Len(y) THEN y[i] ELSE tools[i - Len(y)]
          BY <5>1, ConcatProperties
        <5> QED
          BY <5>2 DEF U
      <4>2. Len(tools) = n /\ Len(y) = 1
        BY <2>4, <3>2
      <4> QED
        BY <4>1, <4>2, Zenon
    <3> DEFINE z == y \o tools
    <3> HIDE DEF z
    <3>4. /\ z \in Seq(UpstreamMessage) /\ Len(z) = 1 + n
          /\ \A i \in 1 .. 1 + n : z[i] = IF i <= 1 THEN y[i] ELSE tools[i - 1]
      BY <3>3 DEF z
    <3>5. ASSUME NEW k \in 1 .. n PROVE z[1 + k] = tools[k]
      <4> DEFINE p == 1 + k
      <4>1. p \in 1 .. 1 + n /\ ~ (p <= 1) /\ p - 1 = k
        OBVIOUS
      <4> HIDE DEF p
      <4>2. z[p] = tools[k]
        BY <3>4, <4>1
      <4> QED
        BY <4>2 DEF p
    <3>6. z[1] = o
      BY <3>2, <3>4
    <3>7. first = z
      BY <3>1 DEF z
    <3> HIDE DEF first
    <3> QED
      BY <3>4, <3>5, <3>6, <3>7
  <2> HIDE DEF first
  <2>6. TakesAt(first, 1)
    <3>1. \A k \in 1 .. n : first[1 + k].role = "tool" /\ first[1 + k].answers = results[k]
      <4> TAKE k \in 1 .. n
      <4>1. first[1 + k] = Message("tool", <<>>, <<>>, results[k])
        BY <2>4, <2>5
      <4> QED
        BY <4>1 DEF Message
    <3>2. { first[1 + k].answers : k \in 1 .. n } = { results[k] : k \in 1 .. n }
      BY <3>1
    <3>3. { results[k] : k \in 1 .. n } = ToSet(results)
      BY <1>0, <2>3, LenProperties DEF ToSet
    <3>4. ToSet(results) = ToSet(calls)
      BY DEF results, calls
    <3>5. { first[1 + k].answers : k \in 1 .. n } = ToSet(calls)
      BY <3>2, <3>3, <3>4, Zenon
    <3>6. first[1].calls = calls /\ Len(first[1].calls) = n /\ first[1].role = "assistant"
          /\ (first[1].content # <<>> \/ first[1].calls # <<>>)
      BY <2>2, <2>5, <2>o
    <3>7. 1 + n <= Len(first)
      BY <2>5
    <3>8. "assistant" # "tool"
      OBVIOUS
    <3> QED
      BY <3>1, <3>5, <3>6, <3>7, <3>8, Zenon DEF TakesAt
  <2>7. ASSUME NEW i \in 2 .. n + 1 PROVE TakesAt(first, i)
    <3>1. PICK k \in 1 .. n : i = 1 + k
      OBVIOUS
    <3>2. first[i] = Message("tool", <<>>, <<>>, results[k])
      BY <2>4, <2>5, <3>1
    <3>3. first[i].role = "tool" /\ first[i].calls = <<>>
      BY <3>2 DEF Message
    <3>4. Len(first[i].calls) = 0 /\ ToSet(first[i].calls) = {}
      BY <3>3 DEF ToSet
    <3>5. 1 \in 1 .. i - 1 /\ i <= 1 + Len(first[1].calls)
      BY <2>2, <2>5, <2>o
    <3>6. i + 0 <= Len(first)
      BY <2>5
    <3> QED
      BY <3>3, <3>4, <3>5, <3>6 DEF TakesAt
  <2>8. \A i \in 1 .. Len(first) : i = 1 \/ i \in 2 .. n + 1
    BY <2>5
  <2>9. UpstreamTakes(first)
    <3>1. \A i \in 1 .. Len(first) : TakesAt(first, i)
      BY <2>6, <2>7, <2>8
    <3> QED
      BY <2>5, <3>1, TakesEach
  <2>10. UpstreamTakes(first \o spoken)
    BY <1>1, <2>5, <2>9, ConcatTakes
  <2>11. AssistantMessages(ab) \o UserMessages(ub) = first \o spoken
    <3>1. PICK y \in Seq(UpstreamMessage) : y = <<o>> /\ Len(y) = 1 /\ y[1] = o
      BY <2>1, OneIsSeq
    <3>2. y \o (tools \o spoken) = (y \o tools) \o spoken
      <4> DEFINE U == UpstreamMessage
      <4>1. y \in Seq(U) /\ tools \in Seq(U) /\ spoken \in Seq(U)
        BY <1>1, <2>4
      <4> HIDE DEF U
      <4> QED
        BY <4>1, ConcatAssociative
    <3>3. UserMessages(ub) = tools \o spoken
      BY DEF UserMessages, tools, spoken
    <3> QED
      BY <2>1, <3>1, <3>2, <3>3 DEF first
  <2> QED
    BY <2>10, <2>11
<1> QED
  BY <1>2, <1>3

-----------------------------------------------------------------------------
(* Conversations. *)

Uses(m) == Of({"use"}, m.blocks)
Results(m) == Of({"result"}, m.blocks)

(* The calls that message i answers, if it is the user's.                  *)
Awaited(c, i) == IF i > 1 /\ c[i - 1].role = "assistant" THEN ToSet(Uses(c[i - 1])) ELSE {}

Fits(c, i) ==
  /\ IsInjective(Uses(c[i])) /\ IsInjective(Results(c[i]))
  /\ c[i].role = "assistant" => i > 1 /\ c[i - 1].role = "user"
  /\ c[i].role = "user" => ToSet(Results(c[i])) \subseteq Awaited(c, i)

Settled(c, i) == c[i].role = "user" => Awaited(c, i) \subseteq ToSet(Results(c[i]))

LEMMA FitsAsBefore ==
  ASSUME NEW c, NEW d, NEW i \in Nat \ {0}, d[i] = c[i], i > 1 => d[i - 1] = c[i - 1]
  PROVE  /\ Fits(d, i) <=> Fits(c, i)
         /\ Settled(d, i) <=> Settled(c, i)
<1>1. CASE i > 1
  BY <1>1 DEF Fits, Settled, Awaited
<1>2. CASE ~ (i > 1)
  BY <1>2 DEF Fits, Settled, Awaited
<1> QED
  BY <1>1, <1>2

Complete(c) ==
  /\ \A i \in 1 .. Len(c) : Fits(c, i) /\ Settled(c, i)
  /\ c # <<>> => c[Len(c)].role = "user"

LEMMA CompleteTakes ==
  ASSUME NEW c0 \in Seq(RequestMessage), Complete(c0)
  PROVE  UpstreamTakes(Translation(c0))
<1> DEFINE Refused(c) == c \in Seq(RequestMessage) /\ Complete(c) /\ ~ UpstreamTakes(Translation(c))
<1> DEFINE Bad == {n \in Nat : \E c \in Seq(RequestMessage) : Len(c) = n /\ Refused(c)}
<1> SUFFICES ASSUME Refused(c0) PROVE FALSE
  OBVIOUS
<1>1. Len(c0) \in Bad
  BY LenProperties
<1>2. PICK n \in Bad : \A m \in Bad : n <= m
  <2>1. Bad \subseteq Nat
    OBVIOUS
  <2> HIDE DEF Bad
  <2> QED
    BY <1>1, <2>1, LeastExists
<1>3. PICK c \in Seq(RequestMessage) : Len(c) = n /\ Refused(c)
  OBVIOUS
<1>4. n \in Nat
  OBVIOUS
<1>5. ASSUME NEW d \in Seq(RequestMessage), Len(d) < n, Complete(d)
      PROVE  UpstreamTakes(Translation(d))
  <2>1. Len(d) \in Nat /\ ~ (n <= Len(d))
    BY <1>4, <1>5, LenProperties
  <2>2. Len(d) \notin Bad
    <3> HIDE DEF Bad
    <3> QED
      BY <1>2, <2>1
  <2> QED
    BY <1>5, <2>1, <2>2
<1> HIDE DEF Bad
<1>6. c # <<>>
  <2> SUFFICES ASSUME c = <<>> PROVE FALSE
    OBVIOUS
  <2>1. Translation(c) = <<>>
    <3>1. <<>> \in Seq(RequestMessage)
      OBVIOUS
    <3> QED
      BY <3>1, TranslationIsMap, FlatMapEmpty
  <2>2. <<>> \in Seq(UpstreamMessage) /\ Len(<<>>) = 0
    OBVIOUS
  <2>3. UpstreamTakes(<<>>)
    <3>1. \A i \in 1 .. Len(<<>>) : TakesAt(<<>>, i)
      BY <2>2
    <3>2. PICK y \in Seq(UpstreamMessage) : y = <<>>
      BY <2>2
    <3> QED
      BY <3>1, <3>2, TakesEach
  <2> QED
    BY <1>3, <2>1, <2>3
<1>7. PICK d \in Seq(RequestMessage), u \in RequestMessage : c = Append(d, u)
  BY <1>6, SequenceEmptyOrAppend
<1>8. PICK k \in Nat : k = Len(d)
  BY LenProperties
<1>9. n = k + 1 /\ c[n] = u /\ \A i \in 1 .. k : c[i] = d[i]
  BY <1>3, <1>7, <1>8, AppendProperties
<1>10. u.role = "user" /\ u.blocks \in Seq(RequestBlock)
  <2>1. u.role = "user"
    BY <1>3, <1>6, <1>9 DEF Complete
  <2> QED
    BY <2>1 DEF RequestMessage
<1>11. Translation(c) = Translation(d) \o UserMessages(u.blocks)
  BY <1>7, <1>10, TranslationAppend
<1>12. \A i \in 1 .. n : Fits(c, i) /\ Settled(c, i)
  BY <1>3 DEF Complete
<1>13. \A i \in 1 .. k : Fits(d, i) /\ Settled(d, i)
  <2> TAKE i \in 1 .. k
  <2>1. i \in Nat \ {0} /\ i \in 1 .. n
    BY <1>9
  <2>2. d[i] = c[i] /\ (i > 1 => i - 1 \in 1 .. k)
    BY <1>9
  <2>3. i > 1 => d[i - 1] = c[i - 1]
    BY <1>9, <2>2
  <2> QED
    BY <1>12, <2>1, <2>2, <2>3, FitsAsBefore
<1>14. Fits(c, n) /\ Settled(c, n)
  BY <1>9, <1>12
<1>15. CASE d # <<>> => d[k].role = "user"
  <2>1. Complete(d)
    BY <1>8, <1>13, <1>15 DEF Complete
  <2>2. UpstreamTakes(Translation(d))
    BY <1>5, <1>8, <1>9, <2>1
  <2>3. Awaited(c, n) = {}
    <3> SUFFICES ASSUME n > 1 PROVE c[n - 1].role # "assistant"
      BY DEF Awaited
    <3>1. n - 1 = k /\ k \in 1 .. k /\ d # <<>>
      BY <1>8, <1>9
    <3> QED
      BY <1>9, <1>15, <3>1
  <2>4. ToSet(Results(u)) = {}
    BY <1>9, <1>10, <1>14, <2>3 DEF Fits
  <2>5. UserMessages(u.blocks) = UserContent(u.blocks)
    BY <1>10, <2>4, NoResults DEF Results
  <2>6. UpstreamTakes(UserMessages(u.blocks)) /\ UserMessages(u.blocks) \in Seq(UpstreamMessage)
    BY <1>10, <2>5, ContentTakes
  <2>7. UpstreamTakes(Translation(c))
    BY <1>11, <2>2, <2>6, TranslationType, ConcatTakes
  <2> QED
    BY <1>3, <2>7
<1>16. CASE ~ (d # <<>> => d[k].role = "user")
  <2>1. PICK e \in Seq(RequestMessage), a \in RequestMessage : d = Append(e, a)
    BY <1>16, SequenceEmptyOrAppend
  <2>2. PICK j \in Nat : j = Len(e)
    BY LenProperties
  <2>3. k = j + 1 /\ d[k] = a /\ \A i \in 1 .. j : d[i] = e[i]
    BY <1>8, <2>1, <2>2, AppendProperties
  <2>4. a.role = "assistant" /\ a.blocks \in Seq(RequestBlock)
    <3>1. a.role \in {"user", "assistant"} /\ a.blocks \in Seq(RequestBlock)
      BY DEF RequestMessage
    <3> QED
      BY <1>16, <2>3, <3>1
  <2>5. Translation(d) = Translation(e) \o AssistantMessages(a.blocks)
    BY <2>1, <2>4, TranslationAppend
  <2>6. Fits(d, k) /\ k > 1 /\ d[k - 1].role = "user"
    <3>1. Fits(d, k)
      BY <1>13, <2>3
    <3> QED
      BY <2>3, <2>4, <3>1 DEF Fits
  <2>7. \A i \in 1 .. j : Fits(e, i) /\ Settled(e, i)
    <3> TAKE i \in 1 .. j
    <3>1. i \in Nat \ {0} /\ i \in 1 .. k
      BY <2>3
    <3>2. e[i] = d[i] /\ (i > 1 => i - 1 \in 1 .. j)
      BY <2>3
    <3>3. i > 1 => e[i - 1] = d[i - 1]
      BY <2>3, <3>2
    <3> QED
      BY <1>13, <3>1, <3>2, <3>3, FitsAsBefore
  <2>8. Complete(e)
    <3>1. k - 1 = j /\ j \in 1 .. j
      BY <2>3, <2>6
    <3>2. e[j].role = "user"
      BY <2>3, <2>6, <3>1
    <3> QED
      BY <2>2, <2>7, <3>2 DEF Complete
  <2>9. UpstreamTakes(Translation(e))
    BY <1>5, <1>9, <2>2, <2>3, <2>8
  <2>10. Awaited(c, n) = ToSet(Uses(a))
    <3>1. n - 1 = k /\ n > 1 /\ k \in 1 .. k
      BY <1>9, <2>3
    <3>2. c[n - 1] = a
      BY <1>9, <2>3, <3>1
    <3> QED
      BY <2>4, <3>1, <3>2 DEF Awaited
  <2>11. IsInjective(Uses(a)) /\ IsInjective(Results(u)) /\ ToSet(Results(u)) = ToSet(Uses(a))
    BY <1>9, <1>10, <1>14, <2>3, <2>6, <2>10 DEF Fits, Settled
  <2>12. UpstreamTakes(AssistantMessages(a.blocks) \o UserMessages(u.blocks))
    BY <1>10, <2>4, <2>11, AnsweredTakes DEF Uses, Results
  <2> DEFINE A == AssistantMessages(a.blocks)
  <2> DEFINE U == UserMessages(u.blocks)
  <2>13. A \in Seq(UpstreamMessage) /\ U \in Seq(UpstreamMessage)
         /\ Translation(e) \in Seq(UpstreamMessage)
    BY <1>10, <2>4, AssistantSent, UserSent, TranslationType
  <2> HIDE DEF A, U
  <2>14. (Translation(e) \o A) \o U = Translation(e) \o (A \o U) /\ A \o U \in Seq(UpstreamMessage)
    <3> DEFINE S == Seq(UpstreamMessage)
    <3>1. \A p, q, r \in S : (p \o q) \o r = p \o (q \o r) /\ q \o r \in S
      BY Regrouped
    <3> QED
      BY <2>13, <3>1, Zenon
  <2>15. UpstreamTakes(A \o U)
    BY <2>12 DEF A, U
  <2>16. UpstreamTakes(Translation(e) \o (A \o U))
    BY <2>9, <2>13, <2>14, <2>15, ConcatTakes
  <2>17. Translation(c) = (Translation(e) \o A) \o U
    BY <1>11, <2>5 DEF A, U
  <2> QED
    BY <1>3, <2>14, <2>16, <2>17
<1> QED
  BY <1>15, <1>16

-----------------------------------------------------------------------------
(* The client. *)

CalledIn(c) == ToSet(Of({"use"}, Said(c, "assistant")))
AnsweredIn(c) == ToSet(Of({"result"}, Said(c, "user")))
NumberIn(c) == Len(Said(c, "user")) + Len(Said(c, "assistant")) + 1

(* The calls nobody has answered, from the last messages.                  *)
OpenIn(c) ==
  IF c = <<>> THEN {}
  ELSE IF c[Len(c)].role = "assistant" THEN ToSet(Uses(c[Len(c)]))
  ELSE Awaited(c, Len(c)) \ ToSet(Results(c[Len(c)]))

(* Every message fits behind the ones before it, the messages before the   *)
(* last are settled, and what is open is open in the last ones.            *)
Ordered(c) ==
  /\ c \in Seq(RequestMessage)
  /\ \A i \in 1 .. Len(c) : Fits(c, i) /\ (i < Len(c) => Settled(c, i))
  /\ \A x \in CalledIn(c) \cup AnsweredIn(c) : x \in Nat /\ x < NumberIn(c)
  /\ CalledIn(c) \ AnsweredIn(c) = OpenIn(c)

RequestInv == Ordered(conversation)

LEMMA ToSetConcat ==
  ASSUME NEW S, NEW s \in Seq(S), NEW t \in Seq(S)
  PROVE  ToSet(s \o t) = ToSet(s) \cup ToSet(t)
<1>1. PICK n \in Nat : n = Len(s)
  BY LenProperties
<1>2. PICK m \in Nat : m = Len(t)
  BY LenProperties
<1> DEFINE r == s \o t
<1>3. /\ r \in Seq(S) /\ Len(r) = n + m
      /\ \A i \in 1 .. n + m : r[i] = IF i <= n THEN s[i] ELSE t[i - n]
  BY <1>1, <1>2, ConcatProperties
<1> HIDE DEF r
<1>4. DOMAIN r = 1 .. n + m /\ DOMAIN s = 1 .. n /\ DOMAIN t = 1 .. m
  BY <1>1, <1>2, <1>3, LenProperties
<1>5. ASSUME NEW x \in ToSet(r) PROVE x \in ToSet(s) \cup ToSet(t)
  <2>1. PICK i \in 1 .. n + m : x = r[i]
    BY <1>4 DEF ToSet
  <2>2. CASE i <= n
    <3>1. x = s[i] /\ i \in DOMAIN s
      BY <1>3, <1>4, <2>1, <2>2
    <3> QED
      BY <3>1 DEF ToSet
  <2>3. CASE ~ (i <= n)
    <3>1. PICK k \in 1 .. m : k = i - n
      BY <2>3
    <3>2. x = t[k]
      BY <1>3, <2>1, <2>3, <3>1
    <3> QED
      BY <1>4, <3>2 DEF ToSet
  <2> QED
    BY <2>2, <2>3
<1>6. ASSUME NEW x \in ToSet(s) PROVE x \in ToSet(r)
  <2>1. PICK i \in 1 .. n : x = s[i]
    BY <1>4 DEF ToSet
  <2>2. i \in 1 .. n + m /\ r[i] = x
    BY <1>3, <2>1
  <2> QED
    BY <1>4, <2>2 DEF ToSet
<1>7. ASSUME NEW x \in ToSet(t) PROVE x \in ToSet(r)
  <2>1. PICK i \in 1 .. m : x = t[i]
    BY <1>4 DEF ToSet
  <2>2. PICK k \in 1 .. n + m : k = n + i
    OBVIOUS
  <2>3. ~ (k <= n) /\ k - n = i
    BY <2>2
  <2>4. r[k] = x
    BY <1>3, <2>1, <2>3
  <2> QED
    BY <1>4, <2>4 DEF ToSet
<1>8. ToSet(r) = ToSet(s) \cup ToSet(t)
  BY <1>5, <1>6, <1>7
<1> QED
  BY <1>8 DEF r

LEMMA InjectiveLonger ==
  ASSUME NEW S, NEW s \in Seq(S), NEW x \in S, IsInjective(s), x \notin ToSet(s)
  PROVE  IsInjective(s \o <<x>>)
<1> DEFINE t == Append(s, x)
<1>1. PICK n \in Nat : n = Len(s)
  BY LenProperties
<1>2. t \in Seq(S) /\ Len(t) = n + 1 /\ t[n + 1] = x /\ \A i \in 1 .. n : t[i] = s[i]
  BY <1>1, AppendProperties
<1> HIDE DEF t
<1>3. DOMAIN t = 1 .. n + 1 /\ DOMAIN s = 1 .. n
  BY <1>1, <1>2, LenProperties
<1>4. \A i \in 1 .. n : s[i] # x
  BY <1>3 DEF ToSet
<1>5. PICK k \in Nat : k = n + 1
  OBVIOUS
<1>6. \A i \in 1 .. k : i = k \/ i \in 1 .. n
  BY <1>5
<1>7. \A i, j \in 1 .. k : t[i] = t[j] => i = j
  BY <1>2, <1>3, <1>4, <1>5, <1>6 DEF IsInjective
<1>8. IsInjective(t)
  BY <1>3, <1>5, <1>7 DEF IsInjective
<1>9. t = s \o <<x>>
  BY AppendIsConcat DEF t
<1> QED
  BY <1>8, <1>9

LEMMA OfSaidAppend ==
  ASSUME NEW kinds, NEW side, NEW c \in Seq(RequestMessage), NEW m \in RequestMessage
  PROVE  ToSet(Of(kinds, Said(Append(c, m), side))) =
           ToSet(Of(kinds, Said(c, side)))
             \cup (IF m.role = side THEN ToSet(Of(kinds, m.blocks)) ELSE {})
<1>1. Append(c, m) \in Seq(RequestMessage) /\ m.blocks \in Seq(RequestBlock)
  BY AppendProperties DEF RequestMessage
<1>2. FlatMap(KeptOf(kinds, side), Append(c, m)) = FlatMap(KeptOf(kinds, side), c) \o KeptOf(kinds, side)[m]
  BY OfSaid, FlatMapAppend
<1>3. KeptOf(kinds, side)[m] = IF m.role = side THEN Of(kinds, m.blocks) ELSE <<>>
  BY DEF KeptOf
<1>4. KeptOf(kinds, side)[m] \in Seq(Nat) /\ FlatMap(KeptOf(kinds, side), c) \in Seq(Nat)
  BY OfSaid, FlatMapType DEF Maps
<1>5. ToSet(<<>>) = {}
  BY DEF ToSet
<1>6. ToSet(FlatMap(KeptOf(kinds, side), Append(c, m)))
        = ToSet(FlatMap(KeptOf(kinds, side), c)) \cup ToSet(KeptOf(kinds, side)[m])
  BY <1>2, <1>4, ToSetConcat
<1> QED
  BY <1>1, <1>3, <1>5, <1>6, OfSaid

LEMMA OneMoreOf ==
  ASSUME NEW kinds, NEW blocks \in Seq(RequestBlock), NEW b \in RequestBlock
  PROVE  /\ ToSet(Of(kinds, Append(blocks, b)))
              = ToSet(Of(kinds, blocks)) \cup (IF b.kind \in kinds THEN {b.of} ELSE {})
         /\ (IsInjective(Of(kinds, blocks)) /\ (b.kind \in kinds => b.of \notin ToSet(Of(kinds, blocks))))
              => IsInjective(Of(kinds, Append(blocks, b)))
<1> DEFINE s == Of(kinds, blocks)
<1>1. s \in Seq(Nat) /\ b.of \in Nat
  BY OfType DEF RequestBlock
<1>2. Of(kinds, Append(blocks, b)) = s \o (IF b.kind \in kinds THEN <<b.of>> ELSE <<>>)
  BY OfAppend
<1> HIDE DEF s
<1>3. CASE b.kind \in kinds
  <2>1. PICK y \in Seq(Nat) : y = <<b.of>>
    BY <1>1, OneIsSeq
  <2>2. ToSet(s \o y) = ToSet(s) \cup ToSet(y)
    BY <1>1, ToSetConcat
  <2>3. ToSet(y) = {b.of}
    BY <2>1 DEF ToSet
  <2>4. IsInjective(s) /\ b.of \notin ToSet(s) => IsInjective(s \o <<b.of>>)
    BY <1>1, InjectiveLonger
  <2> QED
    BY <1>2, <1>3, <2>1, <2>2, <2>3, <2>4 DEF s
<1>4. CASE b.kind \notin kinds
  <2>1. s \o <<>> = s
    BY <1>1, ConcatEmptySeq
  <2> QED
    BY <1>2, <1>4, <2>1 DEF s
<1> QED
  BY <1>3, <1>4

Speech(side, blocks) == [role |-> side, blocks |-> blocks]

(* c has old as the beginning of a message of side behind g, or just g.    *)
BuiltOn(c, g, side, old) == (c = g /\ old = <<>>) \/ c = Append(g, Speech(side, old))

(* d is c with one block more.                                             *)
Grown(c, d, side, old, b) ==
  /\ d \in Seq(RequestMessage)
  /\ NumberIn(d) = NumberIn(c) + 1 /\ NumberIn(c) \in Nat
  /\ CalledIn(d) =
       CalledIn(c) \cup (IF side = "assistant" /\ b.kind = "use" THEN {b.of} ELSE {})
  /\ AnsweredIn(d) =
       AnsweredIn(c) \cup (IF side = "user" /\ b.kind = "result" THEN {b.of} ELSE {})
  /\ side = "assistant" => ToSet(Of({"use"}, old)) \subseteq CalledIn(c)
  /\ side = "user" => ToSet(Of({"result"}, old)) \subseteq AnsweredIn(c)

(* A block more, at the end of the last message or in a message of its own. *)
LEMMA OneBlockMore ==
  ASSUME NEW c \in Seq(RequestMessage), NEW g \in Seq(RequestMessage),
         NEW side \in {"user", "assistant"}, NEW old \in Seq(RequestBlock), NEW b \in RequestBlock,
         NEW d, d = Append(g, Speech(side, Append(old, b))),
         BuiltOn(c, g, side, old)
  PROVE  Grown(c, d, side, old, b)
<1> DEFINE m == Speech(side, old)
<1> DEFINE m2 == Speech(side, Append(old, b))
<1>1. Append(old, b) \in Seq(RequestBlock) /\ Len(Append(old, b)) = Len(old) + 1 /\ Len(old) \in Nat
  BY AppendProperties, LenProperties
<1>2. m \in RequestMessage /\ m2 \in RequestMessage
  <2> DEFINE B == Seq(RequestBlock)
  <2>1. old \in B /\ Append(old, b) \in B
    BY <1>1
  <2> HIDE DEF B
  <2> QED
    BY <2>1 DEF RequestMessage, Speech, B
<1>3. m.role = side /\ m.blocks = old /\ m2.role = side /\ m2.blocks = Append(old, b)
  BY DEF Speech
<1> HIDE DEF m, m2
<1>4. d = Append(g, m2) /\ ((c = g /\ old = <<>>) \/ c = Append(g, m))
  BY DEF m, m2, BuiltOn
<1>5. d \in Seq(RequestMessage)
  BY <1>2, <1>4, AppendProperties
(* What is said is said after what was. *)
<1>6. ASSUME NEW r
      PROVE  /\ Len(Said(d, r)) = Len(Said(c, r)) + (IF r = side THEN 1 ELSE 0)
             /\ Len(Said(c, r)) \in Nat
  <2>1. Said(d, r) = Said(g, r) \o (IF side = r THEN Append(old, b) ELSE <<>>)
    <3>1. Said(Append(g, m2), r) = Said(g, r) \o (IF m2.role = r THEN m2.blocks ELSE <<>>)
      BY <1>2, SaidAppend
    <3> QED
      BY <1>3, <1>4, <3>1
  <2>2. Said(c, r) = Said(g, r) \o (IF side = r THEN old ELSE <<>>)
    <3>1. CASE c = g /\ old = <<>>
      BY <3>1, SaidType, ConcatEmptySeq
    <3>2. CASE c = Append(g, m)
      <4>1. Said(Append(g, m), r) = Said(g, r) \o (IF m.role = r THEN m.blocks ELSE <<>>)
        BY <1>2, SaidAppend
      <4> QED
        BY <1>3, <3>2, <4>1
    <3> QED
      BY <1>4, <3>1, <3>2
  <2> DEFINE s == Said(g, r)
  <2>3. s \in Seq(RequestBlock) /\ Len(s) \in Nat
    BY SaidType, LenProperties
  <2> HIDE DEF s
  <2>4. CASE side = r
    <3>1. Len(s \o Append(old, b)) = Len(s) + Len(Append(old, b)) /\ Len(s \o old) = Len(s) + Len(old)
      BY <1>1, <2>3, ConcatProperties
    <3> QED
      BY <1>1, <2>1, <2>2, <2>3, <2>4, <3>1 DEF s
  <2>5. CASE side # r
    <3>1. s \o <<>> = s
      BY <2>3, ConcatEmptySeq
    <3> QED
      BY <2>1, <2>2, <2>3, <2>5, <3>1 DEF s
  <2> QED
    BY <2>4, <2>5
<1>7. ASSUME NEW kinds, NEW r
      PROVE  /\ ToSet(Of(kinds, Said(d, r))) =
                  ToSet(Of(kinds, Said(c, r))) \cup (IF side = r /\ b.kind \in kinds THEN {b.of} ELSE {})
             /\ side = r => ToSet(Of(kinds, old)) \subseteq ToSet(Of(kinds, Said(c, r)))
  <2>0. ASSUME NEW x \in RequestMessage
        PROVE  ToSet(Of(kinds, Said(Append(g, x), r))) = ToSet(Of(kinds, Said(g, r)))
                 \cup (IF x.role = r THEN ToSet(Of(kinds, x.blocks)) ELSE {})
    BY OfSaidAppend
  <2>1. ToSet(Of(kinds, Said(d, r))) = ToSet(Of(kinds, Said(g, r)))
          \cup (IF side = r THEN ToSet(Of(kinds, Append(old, b))) ELSE {})
    <3>1. ToSet(Of(kinds, Said(Append(g, m2), r))) = ToSet(Of(kinds, Said(g, r)))
            \cup (IF m2.role = r THEN ToSet(Of(kinds, m2.blocks)) ELSE {})
      BY <1>2, <2>0
    <3> QED
      BY <1>3, <1>4, <3>1
  <2>2. ToSet(Of(kinds, Append(old, b)))
          = ToSet(Of(kinds, old)) \cup (IF b.kind \in kinds THEN {b.of} ELSE {})
    BY OneMoreOf
  <2>3. ToSet(Of(kinds, Said(c, r))) = ToSet(Of(kinds, Said(g, r)))
          \cup (IF side = r THEN ToSet(Of(kinds, old)) ELSE {})
    <3>1. CASE c = g /\ old = <<>>
      <4>1. ToSet(Of(kinds, old)) = {}
        BY <3>1, OfEmpty DEF ToSet
      <4> QED
        BY <3>1, <4>1
    <3>2. CASE c = Append(g, m)
      <4>1. ToSet(Of(kinds, Said(Append(g, m), r))) = ToSet(Of(kinds, Said(g, r)))
              \cup (IF m.role = r THEN ToSet(Of(kinds, m.blocks)) ELSE {})
        BY <1>2, <2>0
      <4> QED
        BY <1>3, <3>2, <4>1
    <3> QED
      BY <1>4, <3>1, <3>2
  <2> QED
    BY <2>1, <2>2, <2>3
<1>8. NumberIn(d) = NumberIn(c) + 1 /\ NumberIn(c) \in Nat
  <2>1. /\ Len(Said(d, "user")) = Len(Said(c, "user")) + (IF "user" = side THEN 1 ELSE 0)
        /\ Len(Said(d, "assistant")) = Len(Said(c, "assistant")) + (IF "assistant" = side THEN 1 ELSE 0)
        /\ Len(Said(c, "user")) \in Nat /\ Len(Said(c, "assistant")) \in Nat
    BY <1>6
  <2> DEFINE x == Len(Said(c, "user"))
  <2> DEFINE y == Len(Said(c, "assistant"))
  <2> DEFINE x2 == Len(Said(d, "user"))
  <2> DEFINE y2 == Len(Said(d, "assistant"))
  <2>4. NumberIn(c) = x + y + 1 /\ NumberIn(d) = x2 + y2 + 1
    BY DEF NumberIn
  <2>5. x \in Nat /\ y \in Nat
    BY <2>1
  <2>2. CASE side = "user"
    <3>1. x2 = x + 1 /\ y2 = y + 0
      BY <2>1, <2>2
    <3> HIDE DEF x, y, x2, y2
    <3> QED
      BY <2>4, <2>5, <3>1
  <2>3. CASE side = "assistant"
    <3>1. x2 = x + 0 /\ y2 = y + 1
      BY <2>1, <2>3
    <3> HIDE DEF x, y, x2, y2
    <3> QED
      BY <2>4, <2>5, <3>1
  <2> QED
    BY <2>2, <2>3
<1>9. CalledIn(d) = CalledIn(c) \cup (IF side = "assistant" /\ b.kind = "use" THEN {b.of} ELSE {})
      /\ (side = "assistant" => ToSet(Of({"use"}, old)) \subseteq CalledIn(c))
  <2>1. /\ ToSet(Of({"use"}, Said(d, "assistant"))) = ToSet(Of({"use"}, Said(c, "assistant")))
             \cup (IF side = "assistant" /\ b.kind \in {"use"} THEN {b.of} ELSE {})
        /\ side = "assistant" => ToSet(Of({"use"}, old)) \subseteq ToSet(Of({"use"}, Said(c, "assistant")))
    BY <1>7
  <2> QED
    BY <2>1 DEF CalledIn
<1>10. AnsweredIn(d) = AnsweredIn(c) \cup (IF side = "user" /\ b.kind = "result" THEN {b.of} ELSE {})
      /\ (side = "user" => ToSet(Of({"result"}, old)) \subseteq AnsweredIn(c))
  <2>1. /\ ToSet(Of({"result"}, Said(d, "user"))) = ToSet(Of({"result"}, Said(c, "user")))
             \cup (IF side = "user" /\ b.kind \in {"result"} THEN {b.of} ELSE {})
        /\ side = "user" => ToSet(Of({"result"}, old)) \subseteq ToSet(Of({"result"}, Said(c, "user")))
    BY <1>7
  <2> QED
    BY <2>1 DEF AnsweredIn
<1> QED
  BY <1>5, <1>8, <1>9, <1>10 DEF Grown

(* Nothing is open where the user has the last word.                       *)
LEMMA SettledLast ==
  ASSUME NEW c, Ordered(c), CalledIn(c) \ AnsweredIn(c) = {}, c # <<>>, c[Len(c)].role = "user"
  PROVE  Settled(c, Len(c)) /\ Complete(c)
<1>1. Awaited(c, Len(c)) \ ToSet(Results(c[Len(c)])) = {}
  BY DEF Ordered, OpenIn
<1>2. Settled(c, Len(c))
  BY <1>1 DEF Settled
<1>3. Len(c) \in Nat
  BY LenProperties DEF Ordered
<1>4. \A i \in 1 .. Len(c) : i < Len(c) \/ i = Len(c)
  BY <1>3
<1> QED
  BY <1>2, <1>4 DEF Ordered, Complete

LEMMA OrderedStep ==
  ASSUME NEW c, Ordered(c), NEW g \in Seq(RequestMessage),
         NEW side \in {"user", "assistant"}, NEW old \in Seq(RequestBlock), NEW b \in RequestBlock,
         NEW d, d = Append(g, Speech(side, Append(old, b))),
         \/ c = Append(g, Speech(side, old))
         \/ /\ c = g /\ old = <<>>
            /\ side = "user" => \/ c # <<>> /\ c[Len(c)].role = "assistant"
                                \/ CalledIn(c) \ AnsweredIn(c) = {}
            /\ side = "assistant" => c # <<>> /\ c[Len(c)].role = "user" /\ CalledIn(c) \ AnsweredIn(c) = {},
         b.kind = "use" => side = "assistant" /\ b.of = NumberIn(c),
         b.kind = "result" => side = "user" /\ b.of \in CalledIn(c) \ AnsweredIn(c)
  PROVE  Ordered(d)
<1> DEFINE m == Speech(side, old)
<1> DEFINE m2 == Speech(side, Append(old, b))
<1>c. c \in Seq(RequestMessage)
  BY DEF Ordered
<1>1. /\ d \in Seq(RequestMessage)
      /\ NumberIn(d) = NumberIn(c) + 1 /\ NumberIn(c) \in Nat
      /\ CalledIn(d) = CalledIn(c) \cup (IF side = "assistant" /\ b.kind = "use" THEN {b.of} ELSE {})
      /\ AnsweredIn(d) = AnsweredIn(c) \cup (IF side = "user" /\ b.kind = "result" THEN {b.of} ELSE {})
      /\ side = "assistant" => ToSet(Of({"use"}, old)) \subseteq CalledIn(c)
      /\ side = "user" => ToSet(Of({"result"}, old)) \subseteq AnsweredIn(c)
  <2>1. BuiltOn(c, g, side, old)
    BY DEF BuiltOn
  <2>2. Grown(c, d, side, old, b)
    BY <1>c, <2>1, OneBlockMore
  <2> QED
    BY <2>2 DEF Grown
<1>2. \A x \in CalledIn(c) \cup AnsweredIn(c) : x \in Nat /\ x < NumberIn(c)
  BY DEF Ordered
<1>3. NumberIn(c) \notin CalledIn(c) \cup AnsweredIn(c)
  BY <1>1, <1>2
<1>4. \A x \in CalledIn(d) \cup AnsweredIn(d) : x \in Nat /\ x < NumberIn(d)
  <2> TAKE x \in CalledIn(d) \cup AnsweredIn(d)
  <2>1. PICK n \in Nat : n = NumberIn(c) /\ NumberIn(d) = n + 1
    BY <1>1
  <2>2. CASE x \in CalledIn(c) \cup AnsweredIn(c)
    BY <1>2, <2>1, <2>2
  <2>3. CASE x = NumberIn(c)
    BY <2>1, <2>3
  <2>4. x \in CalledIn(c) \cup AnsweredIn(c) \/ x = NumberIn(c)
    BY <1>1
  <2> QED
    BY <2>2, <2>3, <2>4
<1>5. CalledIn(d) \ AnsweredIn(d) =
        ((CalledIn(c) \ AnsweredIn(c)) \cup (IF b.kind = "use" THEN {b.of} ELSE {}))
          \ (IF b.kind = "result" THEN {b.of} ELSE {})
  BY <1>1, <1>3
<1>r. m.role = side /\ m.blocks = old /\ m2.role = side /\ m2.blocks = Append(old, b)
  BY DEF Speech
<1>m. m \in RequestMessage /\ m2 \in RequestMessage
  <2> DEFINE B == Seq(RequestBlock)
  <2>1. old \in B /\ Append(old, b) \in B
    BY AppendProperties
  <2> HIDE DEF B
  <2> QED
    BY <2>1 DEF RequestMessage, Speech, B
<1> HIDE DEF m, m2
<1>d. d = Append(g, m2)
  BY DEF m2
<1>g. \/ c = Append(g, m)
      \/ /\ c = g /\ old = <<>>
         /\ side = "user" => \/ c # <<>> /\ c[Len(c)].role = "assistant"
                             \/ CalledIn(c) \ AnsweredIn(c) = {}
         /\ side = "assistant" => c # <<>> /\ c[Len(c)].role = "user" /\ CalledIn(c) \ AnsweredIn(c) = {}
  BY DEF m
<1>6. PICK k \in Nat : k = Len(g)
  BY LenProperties
<1>7. PICK l \in Nat : l = k + 1
  OBVIOUS
<1>8. Len(d) = l /\ d[l] = m2 /\ (\A i \in 1 .. k : d[i] = g[i])
  BY <1>m, <1>d, <1>6, <1>7, AppendProperties
<1>9. /\ \A i \in 1 .. k : c[i] = g[i]
      /\ (c = g /\ Len(c) = k) \/ (c = Append(g, m) /\ Len(c) = l /\ c[l] = m)
  <2>1. CASE c = Append(g, m)
    <3>1. Len(c) = k + 1 /\ c[k + 1] = m /\ \A i \in 1 .. k : c[i] = g[i]
      BY <1>m, <1>6, <2>1, AppendProperties
    <3> QED
      BY <1>7, <2>1, <3>1
  <2>2. CASE c = g
    BY <1>6, <2>2
  <2> QED
    BY <1>g, <2>1, <2>2
<1>10. \A i \in 1 .. k : Fits(c, i) /\ (i < Len(c) => Settled(c, i))
  BY <1>7, <1>9 DEF Ordered
<1>11. ASSUME NEW i \in 1 .. k
       PROVE  (Fits(d, i) <=> Fits(c, i)) /\ (Settled(d, i) <=> Settled(c, i))
  <2>0. d[i] = c[i]
    BY <1>8, <1>9
  <2>1. i \in Nat \ {0} /\ d[i] = c[i] /\ (i > 1 => i - 1 \in 1 .. k)
    BY <2>0
  <2>2. i > 1 => d[i - 1] = c[i - 1]
    BY <1>8, <1>9, <2>1
  <2> QED
    BY <2>1, <2>2, FitsAsBefore
(* Before the new message all is settled. *)
<1>12. ASSUME NEW i \in 1 .. k PROVE Settled(c, i)
  <2>1. CASE i < Len(c)
    BY <1>10, <2>1
  <2>2. CASE ~ (i < Len(c))
    <3>1. i = k /\ Len(c) = k /\ c = g /\ k # 0
      BY <1>7, <1>9, <2>2
    <3>2. c # Append(g, m)
      BY <1>m, <1>6, <1>7, <3>1, AppendProperties
    <3>3. CASE c[k].role = "user"
      <4>1. CalledIn(c) \ AnsweredIn(c) = {}
        BY <1>g, <3>1, <3>2, <3>3
      <4>2. c # <<>>
        BY <3>1
      <4> QED
        BY <3>1, <3>3, <4>1, <4>2, SettledLast
    <3>4. CASE c[k].role # "user"
      BY <3>1, <3>4 DEF Settled
    <3> QED
      BY <3>3, <3>4
  <2> QED
    BY <2>1, <2>2
<1>14. Uses(m2) = Of({"use"}, Append(old, b)) /\ Results(m2) = Of({"result"}, Append(old, b))
       /\ Uses(m) = Of({"use"}, old) /\ Results(m) = Of({"result"}, old)
  BY <1>r DEF Uses, Results
<1>15. /\ ToSet(Uses(m2)) = ToSet(Uses(m)) \cup (IF b.kind = "use" THEN {b.of} ELSE {})
       /\ ToSet(Results(m2)) = ToSet(Results(m)) \cup (IF b.kind = "result" THEN {b.of} ELSE {})
       /\ IsInjective(Uses(m)) /\ (b.kind = "use" => b.of \notin ToSet(Uses(m)))
            => IsInjective(Uses(m2))
       /\ IsInjective(Results(m)) /\ (b.kind = "result" => b.of \notin ToSet(Results(m)))
            => IsInjective(Results(m2))
  <2>1. \A kinds :
          /\ ToSet(Of(kinds, Append(old, b)))
               = ToSet(Of(kinds, old)) \cup (IF b.kind \in kinds THEN {b.of} ELSE {})
          /\ (IsInjective(Of(kinds, old)) /\ (b.kind \in kinds => b.of \notin ToSet(Of(kinds, old))))
               => IsInjective(Of(kinds, Append(old, b)))
    BY OneMoreOf
  <2>2. b.kind \in {"use"} <=> b.kind = "use"
    OBVIOUS
  <2>3. b.kind \in {"result"} <=> b.kind = "result"
    OBVIOUS
  <2>4. /\ ToSet(Of({"use"}, Append(old, b)))
             = ToSet(Of({"use"}, old)) \cup (IF b.kind \in {"use"} THEN {b.of} ELSE {})
        /\ (IsInjective(Of({"use"}, old)) /\ (b.kind \in {"use"} => b.of \notin ToSet(Of({"use"}, old))))
             => IsInjective(Of({"use"}, Append(old, b)))
    BY <2>1
  <2>5. /\ ToSet(Of({"result"}, Append(old, b)))
             = ToSet(Of({"result"}, old)) \cup (IF b.kind \in {"result"} THEN {b.of} ELSE {})
        /\ (IsInjective(Of({"result"}, old)) /\ (b.kind \in {"result"} => b.of \notin ToSet(Of({"result"}, old))))
             => IsInjective(Of({"result"}, Append(old, b)))
    BY <2>1
  <2> QED
    BY <1>14, <2>2, <2>3, <2>4, <2>5
<1>16. IsInjective(Uses(m)) /\ IsInjective(Results(m))
  <2>1. CASE c = Append(g, m) /\ Len(c) = l /\ c[l] = m
    <3>1. Fits(c, l)
      BY <1>7, <2>1 DEF Ordered
    <3> QED
      BY <2>1, <3>1 DEF Fits
  <2>2. CASE old = <<>>
    <3>1. Uses(m) = <<>> /\ Results(m) = <<>>
      BY <1>14, <2>2, OfEmpty
    <3> QED
      BY <3>1 DEF IsInjective
  <2> QED
    BY <1>g, <1>9, <2>1, <2>2
<1>17. IsInjective(Uses(m2)) /\ IsInjective(Results(m2))
  BY <1>1, <1>3, <1>14, <1>15, <1>16
<1>18. Awaited(d, l) = Awaited(Append(g, m), l)
  <2>1. l > 1 => l - 1 \in 1 .. k
    BY <1>7
  <2>2. l > 1 => d[l - 1] = g[l - 1] /\ Append(g, m)[l - 1] = g[l - 1]
    BY <1>m, <1>6, <1>8, <2>1, AppendProperties
  <2> QED
    BY <2>2 DEF Awaited
<1>21. ASSUME Fits(d, l), CalledIn(d) \ AnsweredIn(d) = OpenIn(d) PROVE Ordered(d)
  <2>1. ASSUME NEW i \in 1 .. l PROVE Fits(d, i) /\ (i < l => Settled(d, i))
    <3>1. CASE i = l
      BY <1>7, <1>21, <3>1
    <3>2. CASE i # l
      <4>1. i \in 1 .. k
        BY <1>7, <3>2
      <4> QED
        BY <1>10, <1>11, <1>12, <4>1
    <3> QED
      BY <3>1, <3>2
  <2> QED
    BY <1>1, <1>4, <1>8, <1>21, <2>1 DEF Ordered
(* In the last message. *)
<1>19. CASE c = Append(g, m) /\ Len(c) = l /\ c[l] = m
  <2>1. Fits(c, l) /\ c # <<>>
    <3>1. l \in 1 .. Len(c) /\ Len(c) # 0
      BY <1>7, <1>19
    <3> QED
      BY <3>1 DEF Ordered
  <2>2. CalledIn(c) \ AnsweredIn(c) = OpenIn(c)
    BY DEF Ordered
  <2>3. l > 1 => d[l - 1] = c[l - 1]
    <3>1. l > 1 => l - 1 \in 1 .. k
      BY <1>7
    <3> QED
      BY <1>8, <1>9, <3>1
  <2>4. CASE side = "assistant"
    <3>1. OpenIn(c) = ToSet(Uses(m))
      BY <1>r, <1>19, <2>1, <2>4 DEF OpenIn
    <3>2. OpenIn(d) = ToSet(Uses(m2))
      <4>1. d # <<>>
        BY <1>7, <1>8
      <4> QED
        BY <1>r, <1>8, <2>4, <4>1 DEF OpenIn
    <3>3. CalledIn(d) \ AnsweredIn(d) = OpenIn(d)
      <4>1. b.kind # "result"
        BY <2>4
      <4> QED
        BY <1>5, <1>15, <2>2, <3>1, <3>2, <4>1
    <3>4. Fits(d, l)
      BY <1>r, <1>8, <1>17, <1>19, <2>1, <2>3, <2>4 DEF Fits
    <3> QED
      BY <1>21, <3>3, <3>4
  <2>5. CASE side = "user"
    <3>1. OpenIn(c) = Awaited(c, l) \ ToSet(Results(m))
      BY <1>r, <1>19, <2>1, <2>5 DEF OpenIn
    <3>2. OpenIn(d) = Awaited(d, l) \ ToSet(Results(m2))
      <4>1. d # <<>>
        BY <1>7, <1>8
      <4> QED
        BY <1>r, <1>8, <2>5, <4>1 DEF OpenIn
    <3>3. CalledIn(d) \ AnsweredIn(d) = OpenIn(d)
      <4>1. b.kind # "use"
        BY <2>5
      <4> QED
        BY <1>5, <1>15, <1>18, <1>19, <2>2, <3>1, <3>2, <4>1
    <3>4. ToSet(Results(m2)) \subseteq Awaited(d, l)
      <4>1. ToSet(Results(m)) \subseteq Awaited(c, l)
        BY <1>r, <1>19, <2>1, <2>5 DEF Fits
      <4> QED
        BY <1>15, <1>18, <1>19, <2>2, <3>1, <4>1
    <3>5. Fits(d, l)
      BY <1>r, <1>8, <1>17, <2>5, <3>4 DEF Fits
    <3> QED
      BY <1>21, <3>3, <3>5
  <2> QED
    BY <2>4, <2>5
(* In a message of its own. *)
<1>20. CASE c = g /\ Len(c) = k
  <2>0. c # Append(g, m)
    BY <1>m, <1>6, <1>7, <1>20, AppendProperties
  <2>1. /\ old = <<>>
        /\ side = "user" => \/ c # <<>> /\ c[k].role = "assistant"
                            \/ CalledIn(c) \ AnsweredIn(c) = {}
        /\ side = "assistant" => c # <<>> /\ c[k].role = "user" /\ CalledIn(c) \ AnsweredIn(c) = {}
    BY <1>g, <1>20, <2>0
  <2>2. ToSet(Uses(m)) = {} /\ ToSet(Results(m)) = {}
    BY <1>14, <2>1, OfEmpty DEF ToSet
  <2>3. CalledIn(c) \ AnsweredIn(c) = OpenIn(c)
    BY DEF Ordered
  <2>n. d # <<>>
    BY <1>7, <1>8
  <2>4. c # <<>> => l > 1 /\ l - 1 = k /\ d[l - 1] = c[k]
    <3>1. c # <<>> => k # 0
      BY <1>20
    <3>2. k # 0 => l > 1 /\ l - 1 = k /\ k \in 1 .. k
      BY <1>7
    <3> QED
      BY <1>8, <1>9, <3>1, <3>2
  <2>5. c = <<>> => ~ (l > 1)
    <3>1. c = <<>> => k = 0
      BY <1>20
    <3> QED
      BY <1>7, <3>1
  <2>6. CASE side = "assistant"
    <3>1. OpenIn(d) = ToSet(Uses(m2))
      BY <1>r, <1>8, <2>6, <2>n DEF OpenIn
    <3>2. CalledIn(d) \ AnsweredIn(d) = OpenIn(d)
      BY <1>5, <1>15, <2>1, <2>2, <2>6, <3>1
    <3>3. Fits(d, l)
      BY <1>r, <1>8, <1>17, <2>1, <2>4, <2>6 DEF Fits
    <3> QED
      BY <1>21, <3>2, <3>3
  <2>7. CASE side = "user"
    <3>1. OpenIn(d) = Awaited(d, l) \ ToSet(Results(m2))
      BY <1>r, <1>8, <2>7, <2>n DEF OpenIn
    <3>2. Awaited(d, l) = CalledIn(c) \ AnsweredIn(c)
      <4>1. CASE c # <<>> /\ c[k].role = "assistant"
        <5>1. OpenIn(c) = ToSet(Uses(c[k]))
          BY <1>20, <4>1 DEF OpenIn
        <5>2. Awaited(d, l) = ToSet(Uses(c[k]))
          BY <2>4, <4>1 DEF Awaited
        <5> QED
          BY <2>3, <5>1, <5>2
      <4>2. CASE ~ (c # <<>> /\ c[k].role = "assistant")
        <5>1. Awaited(d, l) = {}
          BY <2>4, <2>5, <4>2 DEF Awaited
        <5> QED
          BY <2>1, <2>7, <4>2, <5>1
      <4> QED
        BY <4>1, <4>2
    <3>3. CalledIn(d) \ AnsweredIn(d) = OpenIn(d)
      <4>1. b.kind # "use"
        BY <2>7
      <4> QED
        BY <1>5, <1>15, <2>2, <3>1, <3>2, <4>1
    <3>4. ToSet(Results(m2)) \subseteq Awaited(d, l)
      BY <1>15, <2>2, <3>2
    <3>5. Fits(d, l)
      BY <1>r, <1>8, <1>17, <2>7, <3>4 DEF Fits
    <3> QED
      BY <1>21, <3>3, <3>5
  <2> QED
    BY <2>6, <2>7
<1> QED
  BY <1>9, <1>19, <1>20

LEMMA RequestInitInv == RequestInit => RequestInv
<1> SUFFICES ASSUME RequestInit PROVE RequestInv
  OBVIOUS
<1>1. conversation = <<>> /\ <<>> \in Seq(RequestMessage) /\ Len(<<>>) = 0
  BY DEF RequestInit
<1>2. \A side : Said(<<>>, side) = <<>>
  <2> TAKE side
  <2>1. Said(<<>>, side) = FlatMap(SaidBy(side), <<>>)
    BY <1>1, SaidIsMap
  <2> QED
    BY <2>1, FlatMapEmpty
<1>3. CalledIn(<<>>) = {} /\ AnsweredIn(<<>>) = {}
  BY <1>2, OfEmpty DEF CalledIn, AnsweredIn, ToSet
<1> QED
  BY <1>1, <1>3 DEF RequestInv, Ordered, OpenIn

LEMMA RequestStep == RequestInv /\ [RequestNext]_requestVars => RequestInv'
<1> SUFFICES ASSUME RequestInv, [RequestNext]_requestVars PROVE RequestInv'
  OBVIOUS
<1> DEFINE c == conversation
<1> DEFINE d == conversation'
<1>1. Ordered(c) /\ c \in Seq(RequestMessage)
  BY DEF RequestInv, Ordered
<1>2. /\ NextBlock = NumberIn(c) /\ OpenCalls = CalledIn(c) \ AnsweredIn(c)
      /\ NextBlock \in Nat
  <2>1. \A side : Said(c, side) \in Seq(RequestBlock)
    BY <1>1, SaidType
  <2>2. \A s \in Seq(RequestBlock) : Len(s) \in Nat
    BY LenProperties
  <2> QED
    BY <2>1, <2>2 DEF NextBlock, NumberIn, OpenCalls, CalledIn, AnsweredIn, Blocks
<1>3. \A side : LastIs(side) <=> c # <<>> /\ c[Len(c)].role = side
  BY DEF LastIs, Last
(* A block more is one of the conversation's kind. *)
<1>4. ASSUME NEW side \in {"user", "assistant"}, NEW b \in RequestBlock, Continues(side, b),
             b.kind = "use" => side = "assistant" /\ b.of = NumberIn(c),
             b.kind = "result" => side = "user" /\ b.of \in CalledIn(c) \ AnsweredIn(c)
      PROVE  RequestInv'
  <2>1. c # <<>> /\ c[Len(c)].role = side
    BY <1>3, <1>4 DEF Continues
  <2>2. PICK g \in Seq(RequestMessage), m \in RequestMessage : c = Append(g, m)
    BY <1>1, <2>1, SequenceEmptyOrAppend
  <2>3. Len(c) = Len(g) + 1 /\ Len(g) \in Nat /\ c[Len(g) + 1] = m /\ \A i \in 1 .. Len(g) : c[i] = g[i]
    BY <2>2, AppendProperties, LenProperties
  <2>4. m = [role |-> side, blocks |-> m.blocks] /\ m.blocks \in Seq(RequestBlock)
    BY <2>1, <2>3 DEF RequestMessage
  <2>5. d = Append(g, Speech(side, Append(m.blocks, b)))
    <3> DEFINE m2 == [role |-> side, blocks |-> Append(m.blocks, b)]
    <3>1. d = [c EXCEPT ![Len(c)] = m2]
      <4>1. d = [c EXCEPT ![Len(c)].blocks = Append(@, b)]
        BY <1>4 DEF Continues
      <4>2. [m EXCEPT !.blocks = Append(@, b)] = m2
        <5>1. ASSUME NEW bs, NEW more, m = [role |-> side, blocks |-> bs]
              PROVE  [m EXCEPT !.blocks = more] = [role |-> side, blocks |-> more]
          BY <5>1
        <5> QED
          BY <2>4, <5>1
      <4> HIDE DEF m2
      <4> QED
        BY <2>3, <4>1, <4>2
    <3>2. m2 \in RequestMessage
      <4> DEFINE B == Seq(RequestBlock)
      <4>1. Append(m.blocks, b) \in B
        BY <2>4, AppendProperties
      <4> HIDE DEF B
      <4> QED
        BY <4>1 DEF RequestMessage, Speech, B
    <3> HIDE DEF m2
    <3>3. d \in Seq(RequestMessage) /\ Len(d) = Len(c) /\ d[Len(c)] = m2
          /\ \A i \in 1 .. Len(g) : d[i] = g[i]
      <4>1. Len(c) \in 1 .. Len(c)
        BY <2>3
      <4>2. PICK l \in 1 .. Len(c) : l = Len(c)
        BY <4>1
      <4>3. /\ d \in Seq(RequestMessage) /\ Len(d) = Len(c)
            /\ \A i \in 1 .. Len(c) : d[i] = IF i = l THEN m2 ELSE c[i]
        BY <1>1, <3>1, <3>2, <4>2, ExceptSeq
      <4> QED
        BY <2>3, <4>2, <4>3
    <3> DEFINE a == Append(g, m2)
    <3>4. a \in Seq(RequestMessage) /\ Len(a) = Len(g) + 1 /\ a[Len(g) + 1] = m2
          /\ \A i \in 1 .. Len(g) : a[i] = g[i]
      BY <3>2, AppendProperties
    <3>5. d = a
      <4> HIDE DEF a, d
      <4>1. Len(d) = Len(a)
        BY <2>3, <3>3, <3>4
      <4>2. PICK k \in Nat : k = Len(g)
        BY <2>3
      <4>3. \A i \in 1 .. k + 1 : i = k + 1 \/ i \in 1 .. k
        BY <4>2
      <4>4. \A i \in 1 .. k + 1 : d[i] = a[i]
        BY <2>3, <3>3, <3>4, <4>2, <4>3
      <4>5. Len(d) = k + 1
        BY <2>3, <3>3, <4>2
      <4> QED
        BY <3>3, <3>4, <4>1, <4>4, <4>5, SeqEqual
    <3> QED
      BY <3>5 DEF m2, Speech
  <2>6. c = Append(g, Speech(side, m.blocks))
    BY <2>2, <2>4 DEF Speech
  <2>7. Ordered(d)
    BY <1>1, <1>4, <2>4, <2>5, <2>6, OrderedStep
  <2> QED
    BY <2>7 DEF RequestInv
<1>5. ASSUME NEW side \in {"user", "assistant"}, NEW b \in RequestBlock, Opens(side, b),
             b.kind = "use" => side = "assistant" /\ b.of = NumberIn(c),
             b.kind = "result" => side = "user" /\ b.of \in CalledIn(c) \ AnsweredIn(c),
             side = "user" => LastIs("assistant") \/ OpenCalls = {},
             side = "assistant" => LastIs("user") /\ OpenCalls = {}
      PROVE  RequestInv'
  <2>1. <<b>> = Append(<<>>, b) /\ <<>> \in Seq(RequestBlock)
    OBVIOUS
  <2>2. d = Append(c, [role |-> side, blocks |-> Append(<<>>, b)])
    BY <1>5, <2>1 DEF Opens
  <2>3. /\ side = "user" => \/ c # <<>> /\ c[Len(c)].role = "assistant"
                            \/ CalledIn(c) \ AnsweredIn(c) = {}
        /\ side = "assistant" => c # <<>> /\ c[Len(c)].role = "user" /\ CalledIn(c) \ AnsweredIn(c) = {}
    BY <1>2, <1>3, <1>5
  <2> HIDE DEF c, d
  <2>4. PICK none \in Seq(RequestBlock) : none = <<>>
    BY <2>1
  <2>5. d = Append(c, Speech(side, Append(none, b)))
    BY <2>2, <2>4 DEF Speech
  <2>6. Ordered(d)
    BY <1>1, <1>5, <2>3, <2>4, <2>5, OrderedStep
  <2> QED
    BY <2>6 DEF RequestInv, d
<1>6. ASSUME NEW kind \in {"text", "image"}, UserSays(kind) PROVE RequestInv'
  <2> DEFINE b == Block(kind, NextBlock)
  <2>1. b \in RequestBlock /\ b.kind # "use" /\ b.kind # "result"
    BY <1>2 DEF Block, RequestBlock
  <2>2. Continues("user", b) \/ (Opens("user", b) /\ (LastIs("assistant") \/ OpenCalls = {}))
    BY <1>6 DEF UserSays
  <2> HIDE DEF b
  <2> QED
    BY <1>4, <1>5, <2>1, <2>2
<1>7. ASSUME NEW call \in OpenCalls, UserAnswers(call) PROVE RequestInv'
  <2> DEFINE b == Block("result", call)
  <2>1. call \in Nat
    BY <1>1, <1>2 DEF Ordered
  <2>2. b \in RequestBlock /\ b.kind = "result" /\ b.of \in CalledIn(c) \ AnsweredIn(c)
    BY <1>2, <2>1 DEF Block, RequestBlock
  <2>3. Continues("user", b) \/ (Opens("user", b) /\ LastIs("assistant"))
    BY <1>7 DEF UserAnswers
  <2> HIDE DEF b
  <2> QED
    BY <1>4, <1>5, <2>2, <2>3
<1>8. ASSUME NEW kind \in {"text", "thinking", "use"}, AssistantSays(kind) PROVE RequestInv'
  <2> DEFINE b == Block(kind, NextBlock)
  <2>1. b \in RequestBlock /\ b.kind # "result" /\ b.of = NumberIn(c)
    BY <1>2 DEF Block, RequestBlock
  <2>2. Continues("assistant", b) \/ (Opens("assistant", b) /\ LastIs("user") /\ OpenCalls = {})
    BY <1>8 DEF AssistantSays
  <2> HIDE DEF b
  <2> QED
    BY <1>4, <1>5, <2>1, <2>2
<1>9. CASE UNCHANGED requestVars
  BY <1>9 DEF requestVars, RequestInv
<1> QED
  BY <1>6, <1>7, <1>8, <1>9 DEF RequestNext

LEMMA RequestTaken == RequestInv => RequestSound
<1> SUFFICES ASSUME RequestInv, Sendable PROVE RequestSound
  BY DEF RequestSound
<1> DEFINE c == conversation
<1>1. Ordered(c) /\ c \in Seq(RequestMessage)
  BY DEF RequestInv, Ordered
<1>2. c # <<>> /\ c[Len(c)].role = "user" /\ CalledIn(c) \ AnsweredIn(c) = {}
  BY DEF Sendable, LastIs, Last, OpenCalls, CalledIn, AnsweredIn, Blocks
<1>3. UpstreamTakes(Translation(c))
  BY <1>1, <1>2, SettledLast, CompleteTakes
<1> QED
  BY <1>1, <1>3, AllArrives DEF RequestSound, Translated, Blocks

(* Whatever the order in which a client mixes results and words, an OpenAI *)
(* upstream takes the request, and what both sides said and called arrives *)
(* once and in order: for conversations of any length.                     *)
THEOREM RequestAlwaysSound == RequestSpec => []RequestSound
<1>1. RequestInit => RequestInv
  BY RequestInitInv
<1>2. RequestInv /\ [RequestNext]_requestVars => RequestInv'
  BY RequestStep
<1>3. RequestInv => RequestSound
  BY RequestTaken
<1> QED
  BY <1>1, <1>2, <1>3, PTL DEF RequestSpec

-----------------------------------------------------------------------------
(* The stream of an answer, event by event (TranslateStream). *)

Ordering(s, S) ==
  /\ s \in [1 .. Cardinality(S) -> S]
  /\ \A i, j \in DOMAIN s : i < j => s[i] < s[j]

(* A finite set of numbers can be put in their order: the least, and the   *)
(* others behind it.                                                       *)
LEMMA OrderingExists ==
  ASSUME NEW S, S \subseteq Nat, IsFiniteSet(S)
  PROVE  \E s : Ordering(s, S)
<1> DEFINE Bad == {n \in Nat : \E T : /\ T \subseteq Nat /\ IsFiniteSet(T) /\ Cardinality(T) = n
                                     /\ ~ \E s : Ordering(s, T)}
<1>1. Cardinality(S) \in Nat
  BY FS_CardinalityType
<1> SUFFICES ASSUME Bad # {} PROVE FALSE
  BY <1>1
<1>2. PICK n \in Bad : \A m \in Bad : n <= m
  <2>1. Bad \subseteq Nat
    OBVIOUS
  <2> HIDE DEF Bad
  <2> QED
    BY <2>1, LeastExists
<1>3. PICK T : /\ T \subseteq Nat /\ IsFiniteSet(T) /\ Cardinality(T) = n
               /\ ~ \E s : Ordering(s, T)
  BY <1>2
<1>4. T # {}
  <2> SUFFICES ASSUME T = {} PROVE FALSE
    OBVIOUS
  <2>1. Cardinality(T) = 0
    BY <1>3, FS_EmptySet
  <2>2. Ordering(<<>>, T)
    BY <2>1 DEF Ordering
  <2> QED
    BY <1>3, <2>2
<1>5. PICK x \in T : \A y \in T : x <= y
  BY <1>3, <1>4, LeastExists
<1>6. IsFiniteSet(T \ {x}) /\ Cardinality(T \ {x}) = n - 1 /\ n - 1 \in Nat /\ T \ {x} \subseteq Nat
  <2>1. IsFiniteSet(T \ {x}) /\ Cardinality(T \ {x}) = n - 1
    BY <1>3, FS_RemoveElement
  <2>2. Cardinality(T \ {x}) \in Nat
    BY <2>1, FS_CardinalityType
  <2> QED
    BY <1>3, <2>1, <2>2
<1>7. n \in Nat
  BY <1>3, FS_CardinalityType
<1>8. n - 1 \notin Bad
  <2> HIDE DEF Bad
  <2> QED
    BY <1>2, <1>6, <1>7
<1>9. PICK t : Ordering(t, T \ {x})
  BY <1>6, <1>8
<1> DEFINE s == [i \in 1 .. n |-> IF i = 1 THEN x ELSE t[i - 1]]
<1>10. DOMAIN t = 1 .. n - 1 /\ \A i \in 1 .. n - 1 : t[i] \in T \ {x}
  BY <1>6, <1>9 DEF Ordering
<1>11. s \in [1 .. n -> T]
  <2> SUFFICES ASSUME NEW i \in 1 .. n, i # 1 PROVE t[i - 1] \in T
    OBVIOUS
  <2>1. i - 1 \in 1 .. n - 1
    BY <1>7
  <2> QED
    BY <1>10, <2>1
<1>12. ASSUME NEW i \in 1 .. n, NEW j \in 1 .. n, i < j PROVE s[i] < s[j]
  <2>1. j - 1 \in 1 .. n - 1 /\ j # 1 /\ i \in Nat /\ j \in Nat
    BY <1>7, <1>12
  <2>2. s[j] = t[j - 1] /\ t[j - 1] \in T \ {x}
    BY <1>10, <2>1
  <2>3. CASE i = 1
    <3>1. s[i] = x
      BY <2>3
    <3>2. x <= t[j - 1] /\ x # t[j - 1] /\ x \in Nat /\ t[j - 1] \in Nat
      BY <1>3, <1>5, <2>2
    <3> HIDE DEF s
    <3> QED
      BY <2>2, <3>1, <3>2
  <2>4. CASE i # 1
    <3>1. i - 1 \in 1 .. n - 1 /\ i - 1 < j - 1
      BY <1>7, <1>12, <2>1, <2>4
    <3>2. s[i] = t[i - 1]
      BY <2>4
    <3>3. t[i - 1] < t[j - 1]
      BY <1>9, <1>10, <2>1, <3>1 DEF Ordering
    <3> QED
      BY <2>2, <3>2, <3>3
  <2> QED
    BY <2>3, <2>4
<1>13. Ordering(s, T)
  <2>1. DOMAIN s = 1 .. n
    OBVIOUS
  <2> HIDE DEF s
  <2> QED
    BY <1>3, <1>11, <1>12, <2>1 DEF Ordering
<1> QED
  BY <1>3, <1>13

LEMMA InOrderType ==
  ASSUME NEW S, S \subseteq Nat, IsFiniteSet(S)
  PROVE  InOrder(S) \in [1 .. Cardinality(S) -> S]
<1>1. PICK s : Ordering(s, S)
  BY OrderingExists
<1> QED
  BY <1>1 DEF Ordering, InOrder

EventTypes == {"message_start", "content_block_start", "content_block_delta", "content_block_stop",
               "message_delta", "message_stop", "ping"}
Reasons == {"none", "stop", "end_turn", "tool_use", "max_tokens", "refusal"}
BlockKinds == {"none", "thinking", "text", "tool_use"}

StreamEvent ==
  [type : EventTypes, index : Nat, kind : BlockKinds \cup Reasons, data : Seq(Nat)]

(* An event behind the others changes nothing of what is before it.        *)
LEMMA BeforeAppend ==
  ASSUME NEW E \in Seq(StreamEvent), NEW e \in StreamEvent, NEW type
  PROVE  /\ \A i \in 1 .. Len(E) + 1 : Before(Append(E, e), i, type) = Before(E, i, type)
         /\ Before(Append(E, e), Len(E) + 2, type) =
              IF e.type = type THEN Before(E, Len(E) + 1, type) \cup {Len(E) + 1}
                               ELSE Before(E, Len(E) + 1, type)
         /\ \A i \in 1 .. Len(E) + 1 : Before(E, i, type) \subseteq 1 .. Len(E)
<1> DEFINE F == Append(E, e)
<1>1. /\ Len(F) = Len(E) + 1 /\ Len(E) \in Nat /\ DOMAIN F = 1 .. Len(E) + 1 /\ DOMAIN E = 1 .. Len(E)
      /\ F[Len(E) + 1] = e /\ \A i \in 1 .. Len(E) : F[i] = E[i]
  OBVIOUS
<1> HIDE DEF F
<1>2. ASSUME NEW i \in 1 .. Len(E) + 1 PROVE Before(F, i, type) = Before(E, i, type)
  <2>1. \A j \in DOMAIN F : j < i => j \in DOMAIN E /\ F[j] = E[j]
    BY <1>1
  <2>2. \A j \in DOMAIN E : j \in DOMAIN F /\ F[j] = E[j]
    BY <1>1
  <2> QED
    BY <2>1, <2>2 DEF Before
<1>3. Before(F, Len(E) + 2, type) =
        IF e.type = type THEN Before(E, Len(E) + 1, type) \cup {Len(E) + 1}
                         ELSE Before(E, Len(E) + 1, type)
  <2>1. Before(F, Len(E) + 2, type) = {j \in 1 .. Len(E) + 1 : F[j].type = type}
    BY <1>1 DEF Before
  <2>2. Before(E, Len(E) + 1, type) = {j \in 1 .. Len(E) : E[j].type = type}
    BY <1>1 DEF Before
  <2>3. 1 .. Len(E) + 1 = (1 .. Len(E)) \cup {Len(E) + 1}
    BY <1>1
  <2>4. {j \in 1 .. Len(E) + 1 : F[j].type = type}
          = {j \in 1 .. Len(E) : E[j].type = type} \cup {j \in {Len(E) + 1} : e.type = type}
    BY <1>1, <2>3
  <2>5. {j \in {Len(E) + 1} : e.type = type} = IF e.type = type THEN {Len(E) + 1} ELSE {}
    OBVIOUS
  <2> QED
    BY <2>1, <2>2, <2>4, <2>5
<1> QED
  BY <1>1, <1>2, <1>3 DEF F, Before

LEMMA CountAppend ==
  ASSUME NEW E \in Seq(StreamEvent), NEW e \in StreamEvent
  PROVE  /\ \A i \in 1 .. Len(E) + 1 :
              /\ Starts(Append(E, e), i) = Starts(E, i) /\ Starts(E, i) \in Nat
              /\ Stops(Append(E, e), i) = Stops(E, i) /\ Stops(E, i) \in Nat
         /\ Starts(Append(E, e), Len(E) + 2) =
              IF e.type = "content_block_start" THEN Starts(E, Len(E) + 1) + 1 ELSE Starts(E, Len(E) + 1)
         /\ Stops(Append(E, e), Len(E) + 2) =
              IF e.type = "content_block_stop" THEN Stops(E, Len(E) + 1) + 1 ELSE Stops(E, Len(E) + 1)
<1>0. Len(E) \in Nat /\ Len(E) + 1 \notin 1 .. Len(E)
  OBVIOUS
<1>1. ASSUME NEW type
      PROVE  /\ \A i \in 1 .. Len(E) + 1 :
                  /\ Cardinality(Before(Append(E, e), i, type)) = Cardinality(Before(E, i, type))
                  /\ Cardinality(Before(E, i, type)) \in Nat
             /\ Cardinality(Before(Append(E, e), Len(E) + 2, type)) =
                  IF e.type = type THEN Cardinality(Before(E, Len(E) + 1, type)) + 1
                                   ELSE Cardinality(Before(E, Len(E) + 1, type))
  <2>1. IsFiniteSet(1 .. Len(E))
    BY <1>0, FS_Interval
  <2>2. ASSUME NEW i \in 1 .. Len(E) + 1
        PROVE  IsFiniteSet(Before(E, i, type)) /\ Cardinality(Before(E, i, type)) \in Nat
    <3>1. Before(E, i, type) \subseteq 1 .. Len(E)
      BY BeforeAppend
    <3>2. IsFiniteSet(Before(E, i, type))
      BY <2>1, <3>1, FS_Subset
    <3> QED
      BY <3>2, FS_CardinalityType
  <2>3. Len(E) + 1 \in 1 .. Len(E) + 1
    BY <1>0
  <2>4. Len(E) + 1 \notin Before(E, Len(E) + 1, type)
    BY <1>0 DEF Before
  <2>5. Cardinality(Before(E, Len(E) + 1, type) \cup {Len(E) + 1})
          = Cardinality(Before(E, Len(E) + 1, type)) + 1
    BY <2>2, <2>3, <2>4, FS_AddElement
  <2>6. CASE e.type = type
    <3>1. Before(Append(E, e), Len(E) + 2, type) = Before(E, Len(E) + 1, type) \cup {Len(E) + 1}
      BY <2>6, BeforeAppend
    <3> QED
      BY <2>2, <2>5, <2>6, <3>1, BeforeAppend, Zenon
  <2>7. CASE e.type # type
    <3>1. Before(Append(E, e), Len(E) + 2, type) = Before(E, Len(E) + 1, type)
      BY <2>7, BeforeAppend
    <3> QED
      BY <2>2, <2>7, <3>1, BeforeAppend, Zenon
  <2> QED
    BY <2>6, <2>7
<1> QED
  BY <1>1 DEF Starts, Stops

(* What a reader has made of the events so far: n blocks have begun, and   *)
(* one of the kind is open, or "none".                                     *)
ReadUp(E, n, kind) ==
  /\ E \in Seq(StreamEvent) /\ n \in Nat /\ kind \in BlockKinds \cup Reasons
  /\ \A i \in DOMAIN E :
       /\ Grammatical(E, i)
       /\ E[i].type \notin {"message_delta", "message_stop"}
  /\ Starts(E, Len(E) + 1) = n
  /\ IF kind = "none" THEN Stops(E, Len(E) + 1) = n
     ELSE BlockOpen(E, Len(E) + 1, kind)

LEMMA GrammaticalAppend ==
  ASSUME NEW E \in Seq(StreamEvent), NEW e \in StreamEvent
  PROVE  /\ \A i \in 1 .. Len(E) : Grammatical(Append(E, e), i) <=> Grammatical(E, i)
         /\ \A i \in 1 .. Len(E) + 1 : \A kind :
              BlockOpen(Append(E, e), i, kind) <=> BlockOpen(E, i, kind)
         /\ \A i \in 1 .. Len(E) + 1 :
              BlockClosed(Append(E, e), i) <=> BlockClosed(E, i)
<1> DEFINE F == Append(E, e)
<1>1. /\ Len(F) = Len(E) + 1 /\ Len(E) \in Nat /\ DOMAIN F = 1 .. Len(E) + 1 /\ DOMAIN E = 1 .. Len(E)
      /\ F[Len(E) + 1] = e /\ \A i \in 1 .. Len(E) : F[i] = E[i]
  OBVIOUS
<1>2. ASSUME NEW i \in 1 .. Len(E) + 1
      PROVE  /\ Starts(F, i) = Starts(E, i) /\ Stops(F, i) = Stops(E, i)
             /\ \A type : Before(F, i, type) = Before(E, i, type)
             /\ Before(E, i, "content_block_start") \subseteq 1 .. Len(E)
  BY CountAppend, BeforeAppend
<1> HIDE DEF F
<1>3. ASSUME NEW i \in 1 .. Len(E) + 1, NEW kind
      PROVE  BlockOpen(F, i, kind) <=> BlockOpen(E, i, kind)
  <2>1. \A j \in Before(E, i, "content_block_start") : F[j] = E[j]
    BY <1>1, <1>2
  <2> QED
    BY <1>2, <2>1 DEF BlockOpen
<1>4. ASSUME NEW i \in 1 .. Len(E) + 1
      PROVE  BlockClosed(F, i) <=> BlockClosed(E, i)
  BY <1>2 DEF BlockClosed
<1>5. ASSUME NEW i \in 1 .. Len(E)
      PROVE  Grammatical(F, i) <=> Grammatical(E, i)
  <2>1. i \in 1 .. Len(E) + 1 /\ F[i] = E[i]
    BY <1>1
  <2> QED
    BY <1>2, <1>3, <1>4, <2>1, Zenon DEF Grammatical
<1> QED
  BY <1>3, <1>4, <1>5 DEF F

(* One more event that fits.                                               *)
LEMMA ReadUpNext ==
  ASSUME NEW E, NEW n, NEW kind, ReadUp(E, n, kind), NEW e \in StreamEvent,
         e.type \in {"message_start", "content_block_start", "content_block_delta", "content_block_stop"},
         e.type = "message_start" <=> E = <<>>,
         e.type = "content_block_start" => kind = "none" /\ e.index = n /\ e.kind # "none",
         e.type \in {"content_block_delta", "content_block_stop"} =>
           kind # "none" /\ e.kind = kind /\ e.index = n - 1
  PROVE  ReadUp(Append(E, e),
               IF e.type = "content_block_start" THEN n + 1 ELSE n,
               IF e.type = "content_block_start" THEN e.kind
               ELSE IF e.type = "content_block_stop" THEN "none" ELSE kind)
<1> DEFINE F == Append(E, e)
<1> DEFINE l == Len(E) + 1
<1>1. /\ Len(F) = l /\ Len(E) \in Nat /\ l \in Nat /\ DOMAIN F = 1 .. l /\ DOMAIN E = 1 .. Len(E)
      /\ F[l] = e /\ F \in Seq(StreamEvent) /\ (\A i \in 1 .. Len(E) : F[i] = E[i])
      /\ E \in Seq(StreamEvent)
  BY DEF ReadUp
<1>2. /\ \A i \in 1 .. Len(E) : Grammatical(F, i) <=> Grammatical(E, i)
      /\ BlockClosed(F, l) <=> BlockClosed(E, l)
      /\ BlockOpen(F, l, kind) <=> BlockOpen(E, l, kind)
  BY <1>1, GrammaticalAppend
<1>3. /\ Starts(F, l) = Starts(E, l) /\ Stops(F, l) = Stops(E, l)
      /\ Starts(E, l) = n /\ Stops(E, l) \in Nat /\ n \in Nat
      /\ Starts(F, l + 1) = IF e.type = "content_block_start" THEN n + 1 ELSE n
      /\ Stops(F, l + 1) = IF e.type = "content_block_stop" THEN Stops(E, l) + 1 ELSE Stops(E, l)
  BY <1>1, CountAppend DEF ReadUp
<1>4. /\ Before(F, l + 1, "content_block_start") =
           IF e.type = "content_block_start" THEN Before(E, l, "content_block_start") \cup {l}
                                             ELSE Before(E, l, "content_block_start")
      /\ Before(F, l, "content_block_start") = Before(E, l, "content_block_start")
      /\ Before(E, l, "content_block_start") \subseteq 1 .. Len(E)
  <2>1. l + 1 = Len(E) + 2 /\ l \in 1 .. Len(E) + 1
    BY <1>1
  <2>2. /\ Before(F, l, "content_block_start") = Before(E, l, "content_block_start")
        /\ Before(F, Len(E) + 2, "content_block_start") =
             IF e.type = "content_block_start" THEN Before(E, l, "content_block_start") \cup {l}
                                               ELSE Before(E, l, "content_block_start")
        /\ Before(E, l, "content_block_start") \subseteq 1 .. Len(E)
    <3>1. ASSUME NEW type
          PROVE  /\ Before(F, l, type) = Before(E, l, type)
                 /\ Before(F, Len(E) + 2, type) =
                      IF e.type = type THEN Before(E, l, type) \cup {l} ELSE Before(E, l, type)
                 /\ Before(E, l, type) \subseteq 1 .. Len(E)
      <4>1. E \in Seq(StreamEvent)
        BY <1>1
      <4>2. /\ \A i \in 1 .. Len(E) + 1 : Before(Append(E, e), i, type) = Before(E, i, type)
            /\ Before(Append(E, e), Len(E) + 2, type) =
                 IF e.type = type THEN Before(E, Len(E) + 1, type) \cup {Len(E) + 1}
                                  ELSE Before(E, Len(E) + 1, type)
            /\ \A i \in 1 .. Len(E) + 1 : Before(E, i, type) \subseteq 1 .. Len(E)
        BY <4>1, BeforeAppend, Zenon
      <4>3. Len(E) + 1 \in 1 .. Len(E) + 1
        BY <2>1
      <4> QED
        BY <4>2, <4>3, Zenon
    <3> HIDE DEF F, l
    <3> QED
      BY <3>1
  <2> QED
    BY <2>1, <2>2, Zenon
<1> DEFINE m == IF e.type = "content_block_start" THEN n + 1 ELSE n
<1> DEFINE now == IF e.type = "content_block_start" THEN e.kind
                  ELSE IF e.type = "content_block_stop" THEN "none" ELSE kind
<1>5. E = <<>> <=> l = 1
  BY <1>1
<1> HIDE DEF F, l
<1>6. IF kind = "none" THEN Stops(E, l) = n /\ BlockClosed(E, l)
      ELSE BlockOpen(E, l, kind) /\ n = Stops(E, l) + 1
  BY <1>3 DEF ReadUp, l, BlockClosed, BlockOpen
<1>7. Grammatical(F, l)
  BY <1>1, <1>2, <1>3, <1>5, <1>6 DEF Grammatical
<1>8. ASSUME NEW i \in DOMAIN F
      PROVE  Grammatical(F, i) /\ F[i].type \notin {"message_delta", "message_stop"}
  <2>1. CASE i = l
    BY <1>1, <1>7, <2>1
  <2>2. CASE i # l
    <3>1. i \in 1 .. Len(E)
      BY <1>1, <2>2 DEF l
    <3> QED
      BY <1>1, <1>2, <3>1 DEF ReadUp
  <2> QED
    BY <2>1, <2>2
<1>9. IF now = "none" THEN Stops(F, l + 1) = m ELSE BlockOpen(F, l + 1, now)
  <2>1. CASE e.type = "content_block_start"
    <3>1. now = e.kind /\ now # "none" /\ m = n + 1
      BY <2>1
    <3>2. \A k \in Before(F, l + 1, "content_block_start") : k <= l
      BY <1>1, <1>4, <2>1 DEF l
    <3>3. l \in Before(F, l + 1, "content_block_start") /\ F[l].kind = now
      BY <1>1, <1>4, <2>1
    <3>4. Starts(F, l + 1) = Stops(F, l + 1) + 1
      BY <1>3, <1>6, <2>1
    <3> QED
      BY <3>1, <3>2, <3>3, <3>4 DEF BlockOpen
  <2>2. CASE e.type = "content_block_stop"
    BY <1>3, <1>6, <2>2
  <2>3. CASE e.type \in {"message_start", "content_block_delta"}
    <3>1. now = kind /\ m = n
      BY <2>3
    <3>2. CASE kind = "none"
      BY <1>3, <1>6, <2>3, <3>1, <3>2
    <3>3. CASE kind # "none"
      <4>1. Before(F, l + 1, "content_block_start") = Before(F, l, "content_block_start")
        BY <1>4, <2>3
      <4>2. Starts(F, l + 1) = Stops(F, l + 1) + 1
        BY <1>3, <1>6, <2>3, <3>3
      <4>3. BlockOpen(F, l, kind)
        BY <1>2, <1>6, <3>3
      <4> QED
        BY <3>1, <3>3, <4>1, <4>2, <4>3 DEF BlockOpen
    <3> QED
      BY <3>2, <3>3
  <2> QED
    BY <2>1, <2>2, <2>3
<1>10. m \in Nat /\ now \in BlockKinds \cup Reasons
  <2>1. /\ e.kind \in BlockKinds \cup Reasons
        /\ kind \in BlockKinds \cup Reasons
        /\ "none" \in BlockKinds \cup Reasons
    BY DEF ReadUp, StreamEvent, BlockKinds
  <2> QED
    BY <1>3, <2>1
<1>11. Len(F) + 1 = l + 1 /\ Starts(F, l + 1) = m
  BY <1>1, <1>3
<1> HIDE DEF m, now
<1>12. ReadUp(F, m, now)
  BY <1>1, <1>8, <1>9, <1>10, <1>11 DEF ReadUp
<1> QED
  BY <1>12 DEF F, m, now
-----------------------------------------------------------------------------
(* What is read of the blocks, as maps over the events.                    *)

NotPing == [e \in StreamEvent |-> IF e.type = "ping" THEN <<>> ELSE <<e>>]
ReadOf(kind) ==
  [e \in StreamEvent |-> IF e.type = "content_block_delta" /\ e.kind = kind THEN e.data ELSE <<>>]
ReadIn(n) ==
  [e \in StreamEvent |-> IF e.type = "content_block_delta" /\ e.index = n THEN e.data ELSE <<>>]
ToolStart ==
  [e \in StreamEvent |->
     IF e.type = "content_block_start" /\ e.kind = "tool_use" THEN <<e.index>> ELSE <<>>]

LEMMA EventsMap == Maps(NotPing, StreamEvent, StreamEvent)
<1>1. ASSUME NEW e \in StreamEvent PROVE <<e>> \in Seq(StreamEvent) /\ <<>> \in Seq(StreamEvent)
  <2> DEFINE S == StreamEvent
  <2>1. e \in S
    OBVIOUS
  <2> HIDE DEF S
  <2>2. <<e>> \in Seq(S) /\ <<>> \in Seq(S)
    BY <2>1
  <2> QED
    BY <2>2 DEF S
<1> QED
  BY <1>1 DEF Maps, NotPing

LEMMA DataMaps ==
  /\ \A kind : Maps(ReadOf(kind), StreamEvent, Nat)
  /\ \A n : Maps(ReadIn(n), StreamEvent, Nat)
  /\ Maps(ToolStart, StreamEvent, Nat)
<1>1. ASSUME NEW e \in StreamEvent
      PROVE  e.data \in Seq(Nat) /\ <<e.index>> \in Seq(Nat) /\ <<>> \in Seq(Nat)
  BY DEF StreamEvent
<1> QED
  BY <1>1 DEF Maps, ReadOf, ReadIn, ToolStart

LEMMA DataIsMap ==
  ASSUME NEW E \in Seq(StreamEvent)
  PROVE  /\ \A kind : Gathered(E, kind) = FlatMap(ReadOf(kind), E)
         /\ \A n : GatheredIn(E, n) = FlatMap(ReadIn(n), E)
         /\ ToolBlocks(E) = FlatMap(ToolStart, E)
<1>1. \A i \in DOMAIN E : E[i] \in StreamEvent
  OBVIOUS
<1>2. ASSUME NEW kind PROVE Gathered(E, kind) = FlatMap(ReadOf(kind), E)
  <2>1. \A i \in DOMAIN E :
          (IF E[i].type = "content_block_delta" /\ E[i].kind = kind THEN E[i].data ELSE <<>>)
            = ReadOf(kind)[E[i]]
    BY <1>1 DEF ReadOf
  <2> QED
    BY <2>1 DEF Gathered, FlatMap, Mapped
<1>3. ASSUME NEW n PROVE GatheredIn(E, n) = FlatMap(ReadIn(n), E)
  <2>1. \A i \in DOMAIN E :
          (IF E[i].type = "content_block_delta" /\ E[i].index = n THEN E[i].data ELSE <<>>)
            = ReadIn(n)[E[i]]
    BY <1>1 DEF ReadIn
  <2> QED
    BY <2>1 DEF GatheredIn, FlatMap, Mapped
<1>4. ToolBlocks(E) = FlatMap(ToolStart, E)
  <2>1. \A i \in DOMAIN E :
          (IF E[i].type = "content_block_start" /\ E[i].kind = "tool_use"
           THEN <<E[i].index>> ELSE <<>>) = ToolStart[E[i]]
    BY <1>1 DEF ToolStart
  <2> QED
    BY <2>1 DEF ToolBlocks, FlatMap, Mapped
<1> QED
  BY <1>2, <1>3, <1>4

LEMMA DataAppend ==
  ASSUME NEW E \in Seq(StreamEvent), NEW e \in StreamEvent
  PROVE  /\ \A kind : Gathered(Append(E, e), kind) =
              IF e.type = "content_block_delta" /\ e.kind = kind
              THEN Gathered(E, kind) \o e.data ELSE Gathered(E, kind)
         /\ \A n : GatheredIn(Append(E, e), n) =
              IF e.type = "content_block_delta" /\ e.index = n
              THEN GatheredIn(E, n) \o e.data ELSE GatheredIn(E, n)
         /\ ToolBlocks(Append(E, e)) =
              IF e.type = "content_block_start" /\ e.kind = "tool_use"
              THEN Append(ToolBlocks(E), e.index) ELSE ToolBlocks(E)
<1>1. PICK F \in Seq(StreamEvent) : F = Append(E, e)
  BY AppendProperties
<1>2. ASSUME NEW kind
      PROVE  Gathered(F, kind) =
               IF e.type = "content_block_delta" /\ e.kind = kind
               THEN Gathered(E, kind) \o e.data ELSE Gathered(E, kind)
  <2>1. /\ Gathered(F, kind) = FlatMap(ReadOf(kind), F) /\ Gathered(E, kind) = FlatMap(ReadOf(kind), E)
        /\ Maps(ReadOf(kind), StreamEvent, Nat)
    BY DataIsMap, DataMaps
  <2>2. FlatMap(ReadOf(kind), F) = FlatMap(ReadOf(kind), E) \o ReadOf(kind)[e]
    <3>1. FlatMap(ReadOf(kind), Append(E, e)) = FlatMap(ReadOf(kind), E) \o ReadOf(kind)[e]
      BY <2>1, FlatMapAppend, Zenon
    <3> QED
      BY <1>1, <3>1, Zenon
  <2>3. FlatMap(ReadOf(kind), E) \o <<>> = FlatMap(ReadOf(kind), E)
    BY <2>1, FlatMapType, ConcatEmptySeq
  <2>4. ReadOf(kind)[e] = IF e.type = "content_block_delta" /\ e.kind = kind THEN e.data ELSE <<>>
    BY DEF ReadOf
  <2> QED
    BY <2>1, <2>2, <2>3, <2>4, Zenon
<1>3. ASSUME NEW n
      PROVE  GatheredIn(F, n) =
               IF e.type = "content_block_delta" /\ e.index = n
               THEN GatheredIn(E, n) \o e.data ELSE GatheredIn(E, n)
  <2>1. /\ GatheredIn(F, n) = FlatMap(ReadIn(n), F) /\ GatheredIn(E, n) = FlatMap(ReadIn(n), E)
        /\ Maps(ReadIn(n), StreamEvent, Nat)
    BY DataIsMap, DataMaps
  <2>2. FlatMap(ReadIn(n), F) = FlatMap(ReadIn(n), E) \o ReadIn(n)[e]
    <3>1. FlatMap(ReadIn(n), Append(E, e)) = FlatMap(ReadIn(n), E) \o ReadIn(n)[e]
      BY <2>1, FlatMapAppend, Zenon
    <3> QED
      BY <1>1, <3>1, Zenon
  <2>3. FlatMap(ReadIn(n), E) \o <<>> = FlatMap(ReadIn(n), E)
    BY <2>1, FlatMapType, ConcatEmptySeq
  <2>4. ReadIn(n)[e] = IF e.type = "content_block_delta" /\ e.index = n THEN e.data ELSE <<>>
    BY DEF ReadIn
  <2> QED
    BY <2>1, <2>2, <2>3, <2>4, Zenon
<1>4. ToolBlocks(F) = IF e.type = "content_block_start" /\ e.kind = "tool_use"
                      THEN Append(ToolBlocks(E), e.index) ELSE ToolBlocks(E)
  <2>1. /\ ToolBlocks(F) = FlatMap(ToolStart, F) /\ ToolBlocks(E) = FlatMap(ToolStart, E)
        /\ Maps(ToolStart, StreamEvent, Nat) /\ FlatMap(ToolStart, E) \in Seq(Nat)
    BY DataIsMap, DataMaps, FlatMapType
  <2>2. FlatMap(ToolStart, F) = FlatMap(ToolStart, E) \o ToolStart[e]
    <3>1. FlatMap(ToolStart, Append(E, e)) = FlatMap(ToolStart, E) \o ToolStart[e]
      BY <2>1, FlatMapAppend, ZenonT(30)
    <3> QED
      BY <1>1, <3>1, Zenon
  <2>3. FlatMap(ToolStart, E) \o <<>> = FlatMap(ToolStart, E)
    BY <2>1, ConcatEmptySeq
  <2>4. ToolStart[e] =
          IF e.type = "content_block_start" /\ e.kind = "tool_use" THEN <<e.index>> ELSE <<>>
    BY DEF ToolStart
  <2>5. e.index \in Nat
    BY DEF StreamEvent
  <2>6. Append(FlatMap(ToolStart, E), e.index) = FlatMap(ToolStart, E) \o <<e.index>>
    BY <2>1, <2>5, AppendIsConcat
  <2> QED
    BY <2>1, <2>2, <2>3, <2>4, <2>6, Zenon
<1> QED
  BY <1>1, <1>2, <1>3, <1>4

LEMMA DataType ==
  ASSUME NEW E \in Seq(StreamEvent)
  PROVE  /\ \A kind : Gathered(E, kind) \in Seq(Nat)
         /\ \A n : GatheredIn(E, n) \in Seq(Nat)
         /\ ToolBlocks(E) \in Seq(Nat)
BY DataIsMap, DataMaps, FlatMapType

(* A reader has words this much of the kinds, and these blocks call tools.   *)
View(E, n, kind, words, tools) ==
  /\ ReadUp(E, n, kind)
  /\ \A k \in Kinds : Gathered(E, k) = words[k]
  /\ ToolBlocks(E) = tools
  /\ \A j \in Nat : j >= n => GatheredIn(E, j) = <<>>

(* Concatenation, as an operator the provers leave alone.                  *)
Cat(s, t) == s \o t

LEMMA ViewNothing ==
  ASSUME NEW words, words = [k \in Kinds |-> <<>>]
  PROVE  View(<<>>, 0, "none", words, <<>>)
<1>1. PICK E \in Seq(StreamEvent) : E = <<>> /\ Len(E) = 0
  BY EmptySeq
<1>2. /\ \A kind : Gathered(E, kind) = <<>>
      /\ \A n : GatheredIn(E, n) = <<>>
      /\ ToolBlocks(E) = <<>>
  BY <1>1, DataIsMap, FlatMapEmpty
<1>3. \A type : Before(E, 1, type) = {}
  BY <1>1 DEF Before
<1>4. Starts(E, 1) = 0 /\ Stops(E, 1) = 0
  BY <1>3, FS_EmptySet DEF Starts, Stops
<1>5. ReadUp(E, 0, "none")
  BY <1>1, <1>4 DEF ReadUp, BlockKinds
<1> QED
  BY <1>1, <1>2, <1>5 DEF View

LEMMA ViewStart ==
  ASSUME NEW E, NEW n, NEW words, NEW tools, View(E, n, "none", words, tools), E # <<>>,
         NEW kind \in {"thinking", "text", "tool_use"}, NEW e, e = Event("content_block_start", n, kind, <<>>)
  PROVE  View(Append(E, e), n + 1, kind, words, IF kind = "tool_use" THEN Append(tools, n) ELSE tools)
<1>1. /\ e \in StreamEvent /\ e.type = "content_block_start" /\ e.index = n /\ e.kind = kind
      /\ E \in Seq(StreamEvent) /\ n \in Nat
  BY DEF View, ReadUp, Event, StreamEvent, EventTypes, BlockKinds
<1>2. ReadUp(E, n, "none")
  BY DEF View
<1>3. ReadUp(Append(E, e), n + 1, kind)
  BY <1>1, <1>2, ReadUpNext
<1>4. /\ \A k : Gathered(Append(E, e), k) = Gathered(E, k)
      /\ \A j : GatheredIn(Append(E, e), j) = GatheredIn(E, j)
      /\ ToolBlocks(Append(E, e)) =
           IF kind = "tool_use" THEN Append(ToolBlocks(E), n) ELSE ToolBlocks(E)
  BY <1>1, DataAppend
<1>5. \A j \in Nat : j >= n + 1 => j >= n
  BY <1>1
<1> QED
  BY <1>3, <1>4, <1>5 DEF View

LEMMA ViewDelta ==
  ASSUME NEW E, NEW n, NEW words, NEW tools, NEW kind \in {"thinking", "text", "tool_use"},
         View(E, n, kind, words, tools), NEW data \in Seq(Nat),
         NEW i, i = n - 1, n > 0, NEW e, e = Event("content_block_delta", i, kind, data),
         NEW h, \A k \in Kinds : h[k] = IF k = kind THEN Cat(words[k], data) ELSE words[k]
  PROVE  /\ View(Append(E, e), n, kind, h, tools)
         /\ \A j \in Nat : GatheredIn(Append(E, e), j) =
                             IF j = i THEN Cat(GatheredIn(E, j), data) ELSE GatheredIn(E, j)
<1>1. E \in Seq(StreamEvent) /\ n \in Nat
  BY DEF View, ReadUp
<1>2. /\ e \in StreamEvent /\ e.type = "content_block_delta" /\ e.index = n - 1 /\ e.kind = kind
      /\ e.data = data
  BY <1>1 DEF Event, StreamEvent, EventTypes, BlockKinds
<1>3. ReadUp(E, n, kind)
  BY DEF View
<1>4. E # <<>>
  <2> SUFFICES ASSUME E = <<>> PROVE FALSE
    OBVIOUS
  <2>1. \A type : Before(E, 1, type) = {}
    BY DEF Before
  <2>2. Len(E) + 1 = 1
    OBVIOUS
  <2> QED
    BY <1>3, <2>1, <2>2 DEF ReadUp, BlockOpen
<1>5. ReadUp(Append(E, e), n, kind)
  BY <1>2, <1>3, <1>4, ReadUpNext
<1>6. /\ \A k : Gathered(Append(E, e), k) = IF k = kind THEN Cat(Gathered(E, k), data) ELSE Gathered(E, k)
      /\ \A j : GatheredIn(Append(E, e), j) =
                  IF j = i THEN Cat(GatheredIn(E, j), data) ELSE GatheredIn(E, j)
      /\ ToolBlocks(Append(E, e)) = ToolBlocks(E)
  <2>1. /\ \A k : Gathered(Append(E, e), k) =
              IF e.type = "content_block_delta" /\ e.kind = k
              THEN Cat(Gathered(E, k), e.data) ELSE Gathered(E, k)
        /\ \A j : GatheredIn(Append(E, e), j) =
              IF e.type = "content_block_delta" /\ e.index = j
              THEN Cat(GatheredIn(E, j), e.data) ELSE GatheredIn(E, j)
        /\ ToolBlocks(Append(E, e)) =
              IF e.type = "content_block_start" /\ e.kind = "tool_use"
              THEN Append(ToolBlocks(E), e.index) ELSE ToolBlocks(E)
    BY <1>1, <1>2, DataAppend DEF Cat
  <2> QED
    BY <1>2, <2>1
<1>7. \A j \in Nat : j >= n => j # n - 1
  BY <1>1
<1> QED
  BY <1>5, <1>6, <1>7 DEF View

LEMMA ViewStop ==
  ASSUME NEW E, NEW n, NEW words, NEW tools, NEW kind \in {"thinking", "text", "tool_use"},
         View(E, n, kind, words, tools),
         NEW i, i = n - 1, n > 0, NEW e, e = Event("content_block_stop", i, kind, <<>>)
  PROVE  /\ View(Append(E, e), n, "none", words, tools)
         /\ \A j \in Nat : GatheredIn(Append(E, e), j) = GatheredIn(E, j)
<1>1. E \in Seq(StreamEvent) /\ n \in Nat
  BY DEF View, ReadUp
<1>2. e \in StreamEvent /\ e.type = "content_block_stop" /\ e.index = n - 1 /\ e.kind = kind
  BY <1>1 DEF Event, StreamEvent, EventTypes, BlockKinds
<1>3. ReadUp(E, n, kind)
  BY DEF View
<1>4. E # <<>>
  <2> SUFFICES ASSUME E = <<>> PROVE FALSE
    OBVIOUS
  <2>1. \A type : Before(E, 1, type) = {}
    BY DEF Before
  <2>2. Len(E) + 1 = 1
    OBVIOUS
  <2> QED
    BY <1>3, <2>1, <2>2 DEF ReadUp, BlockOpen
<1>5. ReadUp(Append(E, e), n, "none")
  BY <1>2, <1>3, <1>4, ReadUpNext
<1>6. /\ \A k : Gathered(Append(E, e), k) = Gathered(E, k)
      /\ \A j : GatheredIn(Append(E, e), j) = GatheredIn(E, j)
      /\ ToolBlocks(Append(E, e)) = ToolBlocks(E)
  BY <1>1, <1>2, DataAppend
<1> QED
  BY <1>5, <1>6 DEF View

LEMMA ViewMessage ==
  ASSUME NEW n, NEW words, NEW tools, NEW kind, View(<<>>, n, kind, words, tools),
         NEW e, e = Event("message_start", 0, "none", <<>>)
  PROVE  View(Append(<<>>, e), n, kind, words, tools)
<1>1. PICK E \in Seq(StreamEvent) : E = <<>>
  BY EmptySeq
<1>2. e \in StreamEvent /\ e.type = "message_start"
  BY DEF Event, StreamEvent, EventTypes, BlockKinds
<1>3. ReadUp(E, n, kind)
  BY <1>1 DEF View
<1>5. ReadUp(Append(E, e), n, kind)
  BY <1>1, <1>2, <1>3, ReadUpNext
<1>6. /\ \A k : Gathered(Append(E, e), k) = Gathered(E, k)
      /\ \A j : GatheredIn(Append(E, e), j) = GatheredIn(E, j)
      /\ ToolBlocks(Append(E, e)) = ToolBlocks(E)
  BY <1>1, <1>2, DataAppend
<1> QED
  BY <1>1, <1>5, <1>6 DEF View
-----------------------------------------------------------------------------
(* What is written behind the events so far.                               *)

Unpinged == {e \in StreamEvent : e.type # "ping"}

LEMMA EventTyped ==
  ASSUME NEW type \in EventTypes, NEW index \in Nat, NEW kind \in BlockKinds \cup Reasons,
         NEW data \in Seq(Nat)
  PROVE  /\ Event(type, index, kind, data) \in StreamEvent
         /\ type # "ping" => Event(type, index, kind, data) \in Unpinged
BY DEF Event, StreamEvent, Unpinged

LEMMA EmptyData ==
  /\ \A type \in EventTypes, index \in Nat, kind \in BlockKinds \cup Reasons :
       /\ Event(type, index, kind, <<>>) \in StreamEvent
       /\ type # "ping" => Event(type, index, kind, <<>>) \in Unpinged
  /\ \A kind \in {"none", "thinking", "text", "tool_use"} : kind \in BlockKinds \cup Reasons
<1>1. PICK data \in Seq(Nat) : data = <<>>
  BY EmptySeq
<1> QED
  BY <1>1, EventTyped DEF BlockKinds

LEMMA SeqOfMore ==
  ASSUME NEW S, NEW T, S \subseteq T
  PROVE  Seq(S) \subseteq Seq(T)
OBVIOUS

LEMMA UnpingedOne ==
  ASSUME NEW e \in Unpinged
  PROVE  /\ <<e>> \in Seq(Unpinged) /\ <<>> \in Seq(Unpinged)
         /\ \A E \in Seq(StreamEvent) : E \o <<e>> = Append(E, e) /\ E \o <<>> = E
<1> DEFINE W == Unpinged
<1>1. e \in W /\ e \in StreamEvent
  BY DEF Unpinged
<1> HIDE DEF W
<1>2. <<e>> \in Seq(W) /\ <<>> \in Seq(W)
  BY <1>1
<1>3. \A E \in Seq(StreamEvent) : E \o <<e>> = Append(E, e) /\ E \o <<>> = E
  BY <1>1, AppendIsConcat, ConcatEmptySeq
<1> QED
  BY <1>2, <1>3 DEF W

LEMMA CatAssociative ==
  ASSUME NEW S, NEW s \in Seq(S), NEW t \in Seq(S), NEW u \in Seq(S)
  PROVE  Cat(Cat(s, t), u) = Cat(s, Cat(t, u)) /\ Cat(s, t) \in Seq(S)
<1>1. (s \o t) \o u = s \o (t \o u) /\ s \o t \in Seq(S)
  BY Regrouped
<1> QED
  BY <1>1, Zenon DEF Cat

LEMMA ConcatTwice ==
  ASSUME NEW S, NEW E \in Seq(S), NEW s \in Seq(S), NEW d \in Seq(S), NEW t \in Seq(S)
  PROVE  Cat(E, Cat(Cat(s, d), t)) = Cat(Cat(Cat(E, s), d), t)
<1>1. Cat(s, d) \in Seq(S)
  BY CatAssociative
<1>2. Cat(E, Cat(Cat(s, d), t)) = Cat(Cat(E, Cat(s, d)), t)
  BY <1>1, CatAssociative
<1>3. Cat(E, Cat(s, d)) = Cat(Cat(E, s), d)
  BY CatAssociative
<1> QED
  BY <1>2, <1>3

Passed(b) == FlattenSeq([i \in DOMAIN b |-> IF b[i].type = "ping" THEN <<>> ELSE <<b[i]>>])

LEMMA PassedIsMap ==
  ASSUME NEW b \in Seq(StreamEvent)
  PROVE  Passed(b) = FlatMap(NotPing, b) /\ Passed(b) \in Seq(StreamEvent)
<1>1. \A i \in DOMAIN b : b[i] \in StreamEvent
  OBVIOUS
<1>2. \A i \in DOMAIN b : (IF b[i].type = "ping" THEN <<>> ELSE <<b[i]>>) = NotPing[b[i]]
  BY <1>1 DEF NotPing
<1>3. Passed(b) = FlatMap(NotPing, b)
  BY <1>2 DEF Passed, FlatMap, Mapped
<1> QED
  BY <1>3, EventsMap, FlatMapType

LEMMA AllPassed ==
  \A w \in Seq(Unpinged) : FlatMap(NotPing, w) = w
<1> DEFINE T == {w \in Seq(Unpinged) : FlatMap(NotPing, w) = w}
<1>1. <<>> \in T
  BY FlatMapEmpty, EmptySeq
<1>2. ASSUME NEW w \in Seq(Unpinged), NEW e \in Unpinged, w \in T PROVE Append(w, e) \in T
  <2>1. w \in Seq(StreamEvent) /\ e \in StreamEvent
    <3>1. Unpinged \subseteq StreamEvent
      BY DEF Unpinged
    <3> QED
      BY <3>1, SeqOfMore
  <2>2. FlatMap(NotPing, Append(w, e)) = FlatMap(NotPing, w) \o NotPing[e]
    BY <2>1, EventsMap, FlatMapAppend
  <2>3. NotPing[e] = <<e>>
    BY <2>1 DEF NotPing, Unpinged
  <2>4. w \o <<e>> = Append(w, e)
    BY <2>1, AppendIsConcat
  <2>5. Append(w, e) \in Seq(Unpinged)
    BY AppendProperties
  <2> QED
    BY <1>2, <2>2, <2>3, <2>4, <2>5
<1> HIDE DEF T
<1>3. Seq(Unpinged) \subseteq T
  BY <1>1, <1>2, AllSequences
<1> QED
  BY <1>3 DEF T

LEMMA PassedConcat ==
  ASSUME NEW b \in Seq(StreamEvent), NEW w \in Seq(Unpinged)
  PROVE  Passed(b \o w) = Passed(b) \o w /\ b \o w \in Seq(StreamEvent)
<1>1. w \in Seq(StreamEvent)
  <2>1. Unpinged \subseteq StreamEvent
    BY DEF Unpinged
  <2> QED
    BY <2>1, SeqOfMore
<1>2. b \o w \in Seq(StreamEvent)
  BY <1>1, ConcatProperties
<1>3. FlatMap(NotPing, b \o w) = FlatMap(NotPing, b) \o FlatMap(NotPing, w)
  BY <1>1, EventsMap, FlatMapConcat
<1> QED
  BY <1>2, <1>3, AllPassed, PassedIsMap

LEMMA PassedPing ==
  ASSUME NEW b \in Seq(StreamEvent)
  PROVE  /\ Passed(b \o <<Event("ping", 0, "none", <<>>)>>) = Passed(b)
         /\ b \o <<Event("ping", 0, "none", <<>>)>> \in Seq(StreamEvent)
<1>1. PICK e \in StreamEvent : e = Event("ping", 0, "none", <<>>) /\ e.type = "ping"
  <2>1. Event("ping", 0, "none", <<>>) \in StreamEvent
    BY EmptyData DEF EventTypes
  <2> QED
    BY <2>1 DEF Event
<1>2. b \o <<e>> = Append(b, e) /\ Append(b, e) \in Seq(StreamEvent)
  BY AppendIsConcat, AppendProperties
<1>3. FlatMap(NotPing, Append(b, e)) = FlatMap(NotPing, b) \o NotPing[e]
  BY EventsMap, FlatMapAppend
<1>4. NotPing[e] = <<>>
  BY <1>1 DEF NotPing
<1>5. Passed(b) \o <<>> = Passed(b)
  BY PassedIsMap, ConcatEmptySeq
<1> QED
  BY <1>1, <1>2, <1>3, <1>4, <1>5, PassedIsMap

LEMMA ViewSame ==
  ASSUME NEW E, NEW n, NEW kind, NEW words, NEW tools, View(E, n, kind, words, tools),
         NEW h, \A k \in Kinds : h[k] = words[k]
  PROVE  View(E, n, kind, h, tools)
BY DEF View

LEMMA ViewIndex ==
  ASSUME NEW E, NEW n, NEW kind, NEW words, NEW tools, View(E, n, kind, words, tools)
  PROVE  n \in Nat /\ E \in Seq(StreamEvent) /\ (kind # "none" => n > 0)
<1>1. n \in Nat /\ E \in Seq(StreamEvent) /\ Starts(E, Len(E) + 1) = n
      /\ (kind # "none" => BlockOpen(E, Len(E) + 1, kind))
  BY DEF View, ReadUp
<1>2. PICK e \in StreamEvent : e = Event("ping", 0, "none", <<>>)
  BY EmptyData DEF EventTypes
<1>3. Len(E) + 1 \in 1 .. Len(E) + 1
  BY <1>1
<1>4. Stops(E, Len(E) + 1) \in Nat
  BY <1>1, <1>3, CountAppend
<1> QED
  BY <1>1, <1>4 DEF BlockOpen

ToolPart(n, whole, data) ==
  <<Event("content_block_start", n, "tool_use", <<>>)>>
    \o (IF whole THEN <<Event("content_block_delta", n, "tool_use", data)>> ELSE <<>>)
    \o <<Event("content_block_stop", n, "tool_use", <<>>)>>

(* The events of one tool call.                                            *)
LEMMA ViewTool ==
  ASSUME NEW E, NEW n, NEW words, NEW tools, View(E, n, "none", words, tools), E # <<>>,
         NEW whole \in BOOLEAN, NEW data \in Seq(Nat)
  PROVE  LET w == ToolPart(n, whole, data)
         IN  /\ w \in Seq(Unpinged) /\ E \o w # <<>>
             /\ View(E \o w, n + 1, "none", words, Append(tools, n))
             /\ \A j \in Nat : GatheredIn(E \o w, j) =
                  IF j = n THEN IF whole THEN data ELSE <<>> ELSE GatheredIn(E, j)
<1>1. n \in Nat /\ E \in Seq(StreamEvent) /\ GatheredIn(E, n) = <<>>
  BY ViewIndex DEF View
<1>2. PICK start \in Unpinged : start = Event("content_block_start", n, "tool_use", <<>>)
  BY <1>1, EmptyData DEF EventTypes
<1>3. PICK delta \in Unpinged : delta = Event("content_block_delta", n, "tool_use", data)
  BY <1>1 DEF Event, Unpinged, StreamEvent, EventTypes, BlockKinds
<1>4. PICK stop \in Unpinged : stop = Event("content_block_stop", n, "tool_use", <<>>)
  BY <1>1, EmptyData DEF EventTypes
<1> DEFINE E1 == Append(E, start)
<1> DEFINE mid == IF whole THEN <<delta>> ELSE <<>>
<1> DEFINE E2 == IF whole THEN Append(E1, delta) ELSE E1
<1> DEFINE E3 == Append(E2, stop)
<1> DEFINE w == (<<start>> \o mid) \o <<stop>>
<1>5. /\ start \in StreamEvent /\ delta \in StreamEvent /\ stop \in StreamEvent
      /\ E1 \in Seq(StreamEvent) /\ E1 # <<>>
  BY <1>1, AppendProperties DEF Unpinged
<1>6. /\ View(E1, n + 1, "tool_use", words, Append(tools, n))
      /\ \A j : GatheredIn(E1, j) = GatheredIn(E, j)
  <2>1. View(E1, n + 1, "tool_use", words, Append(tools, n))
    BY <1>2, ViewStart
  <2>2. start.type = "content_block_start"
    BY <1>2 DEF Event
  <2>3. \A j : GatheredIn(Append(E, start), j) =
              IF start.type = "content_block_delta" /\ start.index = j
              THEN GatheredIn(E, j) \o start.data ELSE GatheredIn(E, j)
    BY <1>1, <1>5, DataAppend
  <2> QED
    BY <2>1, <2>2, <2>3
<1>7. /\ View(E2, n + 1, "tool_use", words, Append(tools, n))
      /\ \A j \in Nat : GatheredIn(E2, j) =
           IF j = n THEN IF whole THEN data ELSE <<>> ELSE GatheredIn(E, j)
      /\ E2 \in Seq(StreamEvent) /\ E2 # <<>>
  <2>1. CASE whole
    <3>1. n + 1 > 0 /\ (n + 1) - 1 = n
      BY <1>1
    <3>b. \A k \in Kinds : words[k] = IF k = "tool_use" THEN Cat(words[k], data) ELSE words[k]
      BY DEF Kinds
    <3> HIDE DEF E1
    <3>3. PICK m : m = n + 1 /\ m > 0
      BY <3>1
    <3>a. View(E1, m, "tool_use", words, Append(tools, n))
          /\ n = m - 1
      BY <1>6, <3>1, <3>3
    <3>4. /\ View(Append(E1, delta), m, "tool_use", words, Append(tools, n))
          /\ \A j \in Nat : GatheredIn(Append(E1, delta), j) =
               IF j = n THEN Cat(GatheredIn(E1, j), data) ELSE GatheredIn(E1, j)
      <4>1. "tool_use" \in {"thinking", "text", "tool_use"}
        OBVIOUS
      <4> QED
        BY <1>3, <3>3, <3>a, <3>b, <4>1, ViewDelta
    <3>6. View(Append(E1, delta), n + 1, "tool_use", words, Append(tools, n))
      BY <3>3, <3>4
    <3>7. Cat(<<>>, data) = data
      BY ConcatEmptySeq DEF Cat
    <3>8. \A j \in Nat : GatheredIn(Append(E1, delta), j) = IF j = n THEN data ELSE GatheredIn(E, j)
      BY <1>1, <1>6, <3>1, <3>3, <3>4, <3>7
    <3>9. Append(E1, delta) \in Seq(StreamEvent) /\ Append(E1, delta) # <<>>
      BY <1>5, AppendProperties
    <3> QED
      BY <2>1, <3>6, <3>8, <3>9
  <2>2. CASE ~ whole
    BY <1>1, <1>5, <1>6, <2>2
  <2> QED
    BY <2>1, <2>2
<1>8. /\ View(E3, n + 1, "none", words, Append(tools, n))
      /\ \A j \in Nat : GatheredIn(E3, j) = GatheredIn(E2, j)
      /\ E3 # <<>>
  <2>1. n + 1 > 0 /\ (n + 1) - 1 = n
    BY <1>1
  <2>2. stop = Event("content_block_stop", n, "tool_use", <<>>)
    BY <1>4
  <2> HIDE DEF E1, E2
  <2>3. View(Append(E2, stop), n + 1, "none", words, Append(tools, n))
        /\ \A j \in Nat : GatheredIn(Append(E2, stop), j) = GatheredIn(E2, j)
    BY <1>7, <2>1, <2>2, ViewStop
  <2> QED
    BY <1>5, <1>7, <2>3, AppendProperties
<1>9. w \in Seq(Unpinged) /\ E \o w = E3
  <2>1. /\ <<start>> \in Seq(Unpinged) /\ <<delta>> \in Seq(Unpinged) /\ <<stop>> \in Seq(Unpinged)
        /\ <<>> \in Seq(Unpinged)
    BY UnpingedOne
  <2>2. PICK s \in Seq(StreamEvent), d \in Seq(StreamEvent), t \in Seq(StreamEvent) :
          /\ s = <<start>> /\ d = mid /\ t = <<stop>>
          /\ s \in Seq(Unpinged) /\ d \in Seq(Unpinged) /\ t \in Seq(Unpinged)
    <3>1. Unpinged \subseteq StreamEvent
      BY DEF Unpinged
    <3>2. Seq(Unpinged) \subseteq Seq(StreamEvent)
      BY <3>1, SeqOfMore
    <3> QED
      BY <2>1, <3>2
  <2>4. w = Cat(Cat(s, d), t)
    BY <2>2, Zenon DEF Cat
  <2>5. Cat(s, d) \in Seq(Unpinged) /\ Cat(Cat(s, d), t) \in Seq(Unpinged)
    BY <2>2, ConcatProperties DEF Cat
  <2>6. Cat(E, Cat(Cat(s, d), t)) = Cat(Cat(Cat(E, s), d), t)
    BY <1>1, ConcatTwice
  <2>7. Cat(E, s) = E1
    BY <1>1, <2>2, UnpingedOne, Zenon DEF Cat
  <2>8. Cat(E1, d) = E2
    <3>1. E1 \o <<delta>> = Append(E1, delta) /\ E1 \o <<>> = E1
      BY <1>5, UnpingedOne
    <3> QED
      BY <2>2, <3>1, Zenon DEF Cat
  <2>9. Cat(E2, t) = E3
    BY <1>7, <2>2, UnpingedOne, Zenon DEF Cat
  <2>10. E \o w = Cat(E, Cat(Cat(s, d), t))
    BY <2>4, Zenon DEF Cat
  <2> HIDE DEF w, E1, E2, E3
  <2> QED
    BY <2>4, <2>5, <2>6, <2>7, <2>8, <2>9, <2>10, Zenon
<1>10. w = ToolPart(n, whole, data)
  BY <1>2, <1>3, <1>4 DEF ToolPart
<1> HIDE DEF w, E1, E2, E3
<1> QED
  BY <1>7, <1>8, <1>9, <1>10
(* The first m of the parts TE are behind E: the i-th is a block of its    *)
(* own, with the data D[i] if it is whole.                                 *)
UpTo(m, TE) == [i \in 1 .. m |-> TE[i]]
Numbers(n, m) == [i \in 1 .. m |-> n + i - 1]

ToolsBehind(m, E, n, words, TE, W, D) ==
  LET X == Cat(E, FlattenSeq(UpTo(m, TE))) IN
  /\ UpTo(m, TE) \in SeqsOf(Unpinged) /\ X # <<>>
  /\ View(X, n + m, "none", words, Numbers(n, m))
  /\ \A i \in 1 .. m : GatheredIn(X, n + i - 1) = IF W[i] THEN D[i] ELSE <<>>

LEMMA UpToNext ==
  ASSUME NEW TE, NEW m \in Nat, NEW k, k = m + 1, NEW R, UpTo(m, TE) \in SeqsOf(R), TE[k] \in Seq(R)
  PROVE  /\ UpTo(k, TE) \in SeqsOf(R)
         /\ FlattenSeq(UpTo(k, TE)) = Cat(FlattenSeq(UpTo(m, TE)), TE[k])
<1> DEFINE Q == Seq(R)
<1>1. UpTo(m, TE) \in Seq(Q) /\ TE[k] \in Q
  BY DEF SeqsOf
<1>2. UpTo(k, TE) = Append(UpTo(m, TE), TE[k]) /\ UpTo(k, TE) \in Seq(Q)
  <2> HIDE DEF Q
  <2>1. PICK s \in Seq(Q) : s = UpTo(m, TE)
    BY <1>1
  <2>2. Len(s) = m /\ \A i \in 1 .. m : s[i] = TE[i]
    BY <2>1 DEF UpTo
  <2>3. /\ Append(s, TE[k]) \in Seq(Q) /\ Len(Append(s, TE[k])) = k
        /\ \A i \in 1 .. m : Append(s, TE[k])[i] = s[i]
        /\ Append(s, TE[k])[k] = TE[k]
    BY <1>1, <2>2, AppendProperties
  <2>4. DOMAIN Append(s, TE[k]) = 1 .. k /\ k \in Nat
    BY <2>3, LenProperties
  <2>5. \A i \in 1 .. k : Append(s, TE[k])[i] = TE[i]
    <3> SUFFICES ASSUME NEW i \in 1 .. k PROVE Append(s, TE[k])[i] = TE[i]
      OBVIOUS
    <3>1. i \in 1 .. m \/ i = k
      OBVIOUS
    <3> QED
      BY <2>2, <2>3, <3>1
  <2>6. PICK t \in Seq(Q) : t = Append(s, TE[k])
    BY <2>3
  <2>7. t = [i \in 1 .. k |-> TE[i]]
    BY <2>4, <2>5, <2>6
  <2> QED
    BY <2>1, <2>6, <2>7 DEF UpTo
<1>3. FlattenSeq(Append(UpTo(m, TE), TE[k])) = FlattenSeq(UpTo(m, TE)) \o TE[k]
  BY <1>1, FlattenAppend
<1> QED
  BY <1>2, <1>3 DEF Cat, SeqsOf

LEMMA ToolsNext ==
  ASSUME NEW E \in Seq(StreamEvent), NEW n \in Nat, NEW words, NEW TE, NEW W, NEW D, NEW m \in Nat,
         ToolsBehind(m, E, n, words, TE, W, D), NEW k, k = m + 1,
         TE[k] = ToolPart(n + m, W[k], D[k]), W[k] \in BOOLEAN, D[k] \in Seq(Nat)
  PROVE  ToolsBehind(k, E, n, words, TE, W, D)
<1> DEFINE P == FlattenSeq(UpTo(m, TE))
<1> DEFINE X == Cat(E, P)
<1>1. /\ UpTo(m, TE) \in SeqsOf(Unpinged) /\ X # <<>>
      /\ View(X, n + m, "none", words, Numbers(n, m))
      /\ \A i \in 1 .. m : GatheredIn(X, n + i - 1) = IF W[i] THEN D[i] ELSE <<>>
  BY DEF ToolsBehind
<1> HIDE DEF X
<1>2. PICK l \in Nat : l = n + m
  OBVIOUS
<1>3. PICK tools : tools = Numbers(n, m)
  OBVIOUS
<1> DEFINE w == TE[k]
<1>4. /\ w \in Seq(Unpinged) /\ Cat(X, w) # <<>>
      /\ View(Cat(X, w), l + 1, "none", words, Append(tools, l))
      /\ \A j \in Nat : GatheredIn(Cat(X, w), j) =
           IF j = l THEN IF W[k] THEN D[k] ELSE <<>> ELSE GatheredIn(X, j)
  <2>1. View(X, l, "none", words, tools) /\ X # <<>> /\ w = ToolPart(l, W[k], D[k])
    BY <1>1, <1>2, <1>3
  <2> HIDE DEF w
  <2> QED
    BY <2>1, ViewTool DEF Cat
<1>5. /\ UpTo(k, TE) \in SeqsOf(Unpinged)
      /\ FlattenSeq(UpTo(k, TE)) = Cat(P, w)
  BY <1>1, <1>4, UpToNext
<1>6. Cat(E, FlattenSeq(UpTo(k, TE))) = Cat(X, w)
  <2>1. P \in Seq(Unpinged)
    <3>1. UpTo(m, TE) \in Seq(Seq(Unpinged))
      BY <1>1 DEF SeqsOf
    <3> QED
      BY <3>1, FlattenType, Zenon
  <2>2. Unpinged \subseteq StreamEvent
    BY DEF Unpinged
  <2>3. P \in Seq(StreamEvent) /\ w \in Seq(StreamEvent)
    BY <1>4, <2>1, <2>2, SeqOfMore
  <2> HIDE DEF P, w
  <2>4. PICK p \in Seq(StreamEvent), v \in Seq(StreamEvent) : p = P /\ v = w
    BY <2>3
  <2>5. Cat(Cat(E, p), v) = Cat(E, Cat(p, v))
    BY CatAssociative
  <2> QED
    BY <1>5, <2>4, <2>5, Zenon DEF X
<1>7. Append(tools, l) = Numbers(n, k)
  <2>1. tools \in Seq(Nat) /\ Len(tools) = m /\ \A i \in 1 .. m : tools[i] = n + i - 1
    BY <1>3 DEF Numbers
  <2> QED
    BY <1>2, <2>1 DEF Numbers
<1>8. l + 1 = n + k
  BY <1>2
<1>9. ASSUME NEW i \in 1 .. k
      PROVE  GatheredIn(Cat(X, w), n + i - 1) = IF W[i] THEN D[i] ELSE <<>>
  <2>1. PICK j \in Nat : j = n + i - 1
    OBVIOUS
  <2>2. CASE i = k
    <3>1. j = l
      BY <1>2, <2>1, <2>2
    <3> QED
      BY <1>4, <2>1, <2>2, <3>1
  <2>3. CASE i # k
    <3>1. j # l /\ i \in 1 .. m
      BY <1>2, <2>1, <2>3
    <3> QED
      BY <1>1, <1>4, <2>1, <3>1
  <2> QED
    BY <2>2, <2>3
<1> HIDE DEF w, P
<1> QED
  BY <1>4, <1>5, <1>6, <1>7, <1>8, <1>9 DEF ToolsBehind

LEMMA ToolsView ==
  ASSUME NEW E, NEW n, NEW words, View(E, n, "none", words, <<>>), E # <<>>,
         NEW N \in Nat, NEW W, NEW D, NEW TE,
         \A i \in 1 .. N : /\ TE[i] = ToolPart(n + i - 1, W[i], D[i])
                           /\ W[i] \in BOOLEAN /\ D[i] \in Seq(Nat)
  PROVE  ToolsBehind(N, E, n, words, TE, W, D)
<1> DEFINE Bad == {m \in 0 .. N : ~ ToolsBehind(m, E, n, words, TE, W, D)}
<1>1. n \in Nat /\ E \in Seq(StreamEvent)
  BY ViewIndex
<1>2. 0 \notin Bad
  <2>1. UpTo(0, TE) = <<>> /\ Numbers(n, 0) = <<>> /\ n + 0 = n
    BY <1>1 DEF UpTo, Numbers
  <2>2. Cat(E, <<>>) = E
    BY <1>1, ConcatEmptySeq DEF Cat
  <2>3. <<>> \in SeqsOf(Unpinged)
    BY EmptySeq DEF SeqsOf
  <2>4. ToolsBehind(0, E, n, words, TE, W, D)
    BY <2>1, <2>2, <2>3, FlattenEmpty DEF ToolsBehind
  <2> QED
    BY <2>4
<1> SUFFICES ASSUME Bad # {} PROVE FALSE
  OBVIOUS
<1>3. PICK k \in Bad : \A m \in Bad : k <= m
  <2>1. Bad \subseteq Nat
    OBVIOUS
  <2> HIDE DEF Bad
  <2> QED
    BY <2>1, LeastExists
<1>4. k \in 1 .. N /\ ~ ToolsBehind(k, E, n, words, TE, W, D)
  BY <1>2
<1>5. PICK m \in Nat : k = m + 1 /\ m \in 0 .. N
  <2>1. k - 1 \in Nat /\ k = (k - 1) + 1 /\ k - 1 \in 0 .. N
    BY <1>4
  <2> QED
    BY <2>1
<1>6. m \notin Bad
  <2> HIDE DEF Bad
  <2> QED
    BY <1>3, <1>4, <1>5
<1>7. ToolsBehind(m, E, n, words, TE, W, D)
  BY <1>5, <1>6
<1>8. TE[k] = ToolPart(n + m, W[k], D[k]) /\ W[k] \in BOOLEAN /\ D[k] \in Seq(Nat)
  <2>1. n + k - 1 = n + m
    BY <1>1, <1>5
  <2> QED
    BY <1>4, <2>1
<1> HIDE DEF Bad
<1> QED
  BY <1>1, <1>4, <1>5, <1>7, <1>8, ToolsNext
-----------------------------------------------------------------------------
(* What upstream has sent.                                                 *)

SentPiece == [kind : {"other", "thinking", "text", "tool"}, key : Nat]

PlacesIn(s, kind, key) ==
  FlattenSeq([i \in DOMAIN s |-> IF s[i].kind = kind /\ s[i].key = key THEN <<i>> ELSE <<>>])

KeysIn(s) == { s[i].key : i \in { j \in DOMAIN s : s[j].kind = "tool" } }

LEMMA PlacesNext ==
  ASSUME NEW s \in Seq(SentPiece), NEW x \in SentPiece, NEW kind, NEW key
  PROVE  PlacesIn(Append(s, x), kind, key) =
           IF x.kind = kind /\ x.key = key THEN Cat(PlacesIn(s, kind, key), <<Len(s) + 1>>)
           ELSE PlacesIn(s, kind, key)
<1>1. PICK r \in Seq(SentPiece) : r = Append(s, x)
  BY AppendProperties
<1>2. PICK m \in Nat : m = Len(s)
  OBVIOUS
<1>3. PICK k \in Nat : k = m + 1
  OBVIOUS
<1>4. /\ DOMAIN s = 1 .. m /\ DOMAIN r = 1 .. k /\ r[k] = x /\ \A i \in 1 .. m : r[i] = s[i]
  BY <1>1, <1>2, <1>3
<1> DEFINE TE == [i \in 1 .. k |-> IF r[i].kind = kind /\ r[i].key = key THEN <<i>> ELSE <<>>]
<1>5. /\ UpTo(m, TE) = [i \in DOMAIN s |-> IF s[i].kind = kind /\ s[i].key = key THEN <<i>> ELSE <<>>]
      /\ UpTo(k, TE) = [i \in DOMAIN r |-> IF r[i].kind = kind /\ r[i].key = key THEN <<i>> ELSE <<>>]
  <2>1. \A i \in 1 .. m : i \in 1 .. k
    BY <1>3
  <2> QED
    BY <1>4, <2>1 DEF UpTo
<1>6. \A i \in 1 .. k : TE[i] \in Seq(Nat)
  OBVIOUS
<1>7. UpTo(m, TE) \in SeqsOf(Nat)
  <2> DEFINE Q == Seq(Nat)
  <2>1. \A i \in 1 .. m : TE[i] \in Q
    BY <1>3, <1>6
  <2> HIDE DEF Q, TE
  <2>2. [i \in 1 .. m |-> TE[i]] \in Seq(Q)
    BY <2>1
  <2> QED
    BY <2>2 DEF UpTo, SeqsOf, Q
<1>8. TE[k] = (IF x.kind = kind /\ x.key = key THEN <<k>> ELSE <<>>) /\ TE[k] \in Seq(Nat)
  BY <1>3, <1>4, <1>6
<1> HIDE DEF TE
<1>9. FlattenSeq(UpTo(k, TE)) = Cat(FlattenSeq(UpTo(m, TE)), TE[k])
  BY <1>3, <1>7, <1>8, UpToNext
<1>10. FlattenSeq(UpTo(m, TE)) \in Seq(Nat)
  BY <1>7, FlattenType DEF SeqsOf
<1>11. Cat(FlattenSeq(UpTo(m, TE)), <<>>) = FlattenSeq(UpTo(m, TE))
  BY <1>10, ConcatEmptySeq DEF Cat
<1>12. PlacesIn(s, kind, key) = FlattenSeq(UpTo(m, TE)) /\ PlacesIn(r, kind, key) = FlattenSeq(UpTo(k, TE))
  BY <1>5 DEF PlacesIn
<1> QED
  BY <1>1, <1>2, <1>3, <1>8, <1>9, <1>11, <1>12, Zenon

LEMMA KeysNext ==
  ASSUME NEW s \in Seq(SentPiece), NEW x \in SentPiece
  PROVE  KeysIn(Append(s, x)) = KeysIn(s) \cup (IF x.kind = "tool" THEN {x.key} ELSE {})
<1>1. PICK r \in Seq(SentPiece) : r = Append(s, x)
  BY AppendProperties
<1>2. PICK m \in Nat : m = Len(s)
  OBVIOUS
<1>3. /\ DOMAIN s = 1 .. m /\ DOMAIN r = (1 .. m) \cup {m + 1} /\ r[m + 1] = x
      /\ \A i \in 1 .. m : r[i] = s[i]
  BY <1>1, <1>2
<1> QED
  BY <1>1, <1>3 DEF KeysIn

(* The client has what was sent of the pieces, and the tool calls so far   *)
(* are gathered.                                                           *)
Gist == [k \in Kinds |-> Places(k, 0)]

ToolsGathered ==
  /\ ToolKeys = SentKeys /\ ToolKeys \subseteq Nat /\ IsFiniteSet(ToolKeys)
  /\ \A k \in Nat : Places("tool", k) = IF k \in ToolKeys THEN toolCalls[k] ELSE <<>>
  /\ \A k \in ToolKeys : toolCalls[k] \in Seq(Nat)

AnswerInv ==
  /\ body \in Seq(StreamEvent) /\ sent \in Seq(SentPiece)
  /\ started \in BOOLEAN /\ open \in Kinds \cup {"none"}
  /\ finish \in {"none", "stop", "max_tokens", "refusal"}
  /\ ToolsGathered
  /\ pipe # "flushed" => /\ View(Events, nextIndex, open, Gist, <<>>)
                         /\ started <=> Events # <<>>
  /\ pipe = "flushed" => StreamSound

LEMMA EventsPassed == Events = Passed(body)
  BY DEF Events, Passed

LEMMA AnswerInitInv == TranslateInit => AnswerInv
<1> SUFFICES ASSUME TranslateInit PROVE AnswerInv
  OBVIOUS
<1>1. body \in Seq(StreamEvent) /\ sent \in Seq(SentPiece) /\ body = <<>> /\ sent = <<>>
  BY EmptySeq DEF TranslateInit
<1>2. Events = <<>>
  BY <1>1, EventsPassed, PassedIsMap, FlatMapEmpty
<1>3. \A kind, key : Places(kind, key) = <<>>
  BY <1>1, FlattenEmpty DEF Places
<1>4. Gist = [k \in Kinds |-> <<>>]
  BY <1>3 DEF Gist
<1>5. View(Events, 0, "none", Gist, <<>>)
  BY <1>2, <1>4, ViewNothing
<1>6. ToolsGathered
  <2>1. ToolKeys = {} /\ SentKeys = {}
    BY <1>1 DEF TranslateInit, ToolKeys, SentKeys
  <2> QED
    BY <1>3, <2>1, FS_EmptySet DEF ToolsGathered
<1> QED
  BY <1>1, <1>2, <1>5, <1>6 DEF AnswerInv, TranslateInit

(* What is written behind the events, part by part.                        *)
LEMMA StartBehind ==
  ASSUME NEW E, NEW n, NEW kind, NEW words, NEW tools, View(E, n, kind, words, tools),
         started <=> E # <<>>
  PROVE  /\ MessageStart \in Seq(Unpinged) /\ Cat(E, MessageStart) # <<>>
         /\ View(Cat(E, MessageStart), n, kind, words, tools)
<1>1. E \in Seq(StreamEvent)
  BY ViewIndex
<1>2. PICK e \in Unpinged : e = Event("message_start", 0, "none", <<>>)
  BY EmptyData DEF EventTypes
<1>3. /\ <<e>> \in Seq(Unpinged) /\ <<>> \in Seq(Unpinged)
      /\ Cat(E, <<e>>) = Append(E, e) /\ Cat(E, <<>>) = E
  BY <1>1, UnpingedOne DEF Cat
<1>4. CASE started
  <2>1. MessageStart = <<>>
    BY <1>4 DEF MessageStart
  <2> QED
    BY <1>3, <1>4, <2>1
<1>5. CASE ~ started
  <2>1. MessageStart = <<e>> /\ E = <<>>
    BY <1>2, <1>5 DEF MessageStart
  <2>2. View(Append(E, e), n, kind, words, tools)
    BY <1>2, <2>1, ViewMessage
  <2>3. Append(E, e) # <<>>
    BY <1>1
  <2> QED
    BY <1>3, <2>1, <2>2, <2>3
<1> QED
  BY <1>4, <1>5

LEMMA CloseBehind ==
  ASSUME NEW E, NEW words, NEW tools, View(E, nextIndex, open, words, tools),
         E # <<>>, open \in Kinds \cup {"none"}
  PROVE  /\ CloseOpenBlock \in Seq(Unpinged) /\ Cat(E, CloseOpenBlock) # <<>>
         /\ View(Cat(E, CloseOpenBlock), nextIndex, "none", words, tools)
<1>1. E \in Seq(StreamEvent) /\ nextIndex \in Nat /\ (open # "none" => nextIndex > 0)
  BY ViewIndex
<1>2. CASE open = "none"
  <2>1. CloseOpenBlock = <<>>
    BY <1>2 DEF CloseOpenBlock
  <2>2. Cat(E, <<>>) = E /\ <<>> \in Seq(Unpinged)
    BY <1>1, ConcatEmptySeq, EmptySeq DEF Cat
  <2> QED
    BY <1>2, <2>1, <2>2
<1>3. CASE open # "none"
  <2>1. PICK i \in Nat : i = nextIndex - 1
    BY <1>1, <1>3
  <2>2. open \in {"thinking", "text", "tool_use"}
    BY <1>3 DEF Kinds
  <2>3. PICK e \in Unpinged : e = Event("content_block_stop", i, open, <<>>)
    BY <2>2, EmptyData DEF EventTypes
  <2>4. /\ <<e>> \in Seq(Unpinged) /\ Cat(E, <<e>>) = Append(E, e)
    BY <1>1, UnpingedOne DEF Cat
  <2>5. CloseOpenBlock = <<e>>
    BY <1>3, <2>1, <2>3 DEF CloseOpenBlock
  <2>6. View(Append(E, e), nextIndex, "none", words, tools)
    BY <1>1, <1>3, <2>1, <2>2, <2>3, ViewStop
  <2>7. Append(E, e) # <<>>
    BY <1>1
  <2> QED
    BY <2>4, <2>5, <2>6, <2>7
<1> QED
  BY <1>2, <1>3

(* Concatenation, typed and regrouped.                                     *)
LEMMA CatTyped ==
  ASSUME NEW S, NEW s \in Seq(S), NEW t \in Seq(S)
  PROVE  Cat(s, t) \in Seq(S)
BY ConcatProperties DEF Cat

LEMMA CatUnpinged ==
  ASSUME NEW E \in Seq(StreamEvent), NEW s \in Seq(Unpinged), NEW t \in Seq(Unpinged)
  PROVE  Cat(E, Cat(s, t)) = Cat(Cat(E, s), t) /\ Cat(E, s) \in Seq(StreamEvent)
<1>1. Unpinged \subseteq StreamEvent
  BY DEF Unpinged
<1>2. PICK p \in Seq(StreamEvent), q \in Seq(StreamEvent) : p = s /\ q = t
  BY <1>1, SeqOfMore
<1>3. (E \o p) \o q = E \o (p \o q)
  BY ConcatAssociative
<1> QED
  BY <1>2, <1>3, CatTyped, Zenon DEF Cat

LEMMA DeltaBehind ==
  ASSUME NEW E, NEW words, NEW tools, View(E, nextIndex, open, words, tools),
         E # <<>>, open \in Kinds \cup {"none"}, NEW kind \in Kinds, NEW data \in Seq(Nat),
         NEW h, \A k \in Kinds : h[k] = IF k = kind THEN Cat(words[k], data) ELSE words[k]
  PROVE  /\ Delta(kind, data) \in Seq(Unpinged)
         /\ View(Cat(E, Delta(kind, data)), IndexWith(kind), kind, h, tools)
         /\ Cat(E, Delta(kind, data)) # <<>>
<1>1. E \in Seq(StreamEvent) /\ nextIndex \in Nat /\ (open # "none" => nextIndex > 0)
  BY ViewIndex
<1>2. kind \in {"thinking", "text", "tool_use"} /\ kind # "none" /\ kind # "tool_use"
  BY DEF Kinds
<1>3. PICK m \in Nat, i \in Nat : m = IndexWith(kind) /\ i = m - 1 /\ m > 0
  <2>1. IndexWith(kind) \in Nat /\ IndexWith(kind) > 0
    BY <1>1, <1>2 DEF IndexWith
  <2>2. IndexWith(kind) - 1 \in Nat
    BY <2>1
  <2> QED
    BY <2>1, <2>2
<1>4. /\ EnsureBlock(kind) \in Seq(Unpinged)
      /\ View(Cat(E, EnsureBlock(kind)), m, kind, words, tools)
      /\ Cat(E, EnsureBlock(kind)) # <<>>
  <2>1. CASE open = kind
    <3>1. EnsureBlock(kind) = <<>> /\ m = nextIndex
      BY <1>3, <2>1 DEF EnsureBlock, IndexWith
    <3>2. Cat(E, <<>>) = E /\ <<>> \in Seq(Unpinged)
      BY <1>1, ConcatEmptySeq, EmptySeq DEF Cat
    <3> QED
      BY <2>1, <3>1, <3>2
  <2>2. CASE open # kind
    <3>1. PICK e \in Unpinged : e = Event("content_block_start", nextIndex, kind, <<>>)
      BY <1>1, <1>2, EmptyData DEF EventTypes
    <3>2. EnsureBlock(kind) = Cat(CloseOpenBlock, <<e>>) /\ m = nextIndex + 1
      BY <1>3, <2>2, <3>1 DEF EnsureBlock, IndexWith, Cat
    <3>3. /\ CloseOpenBlock \in Seq(Unpinged) /\ Cat(E, CloseOpenBlock) # <<>>
          /\ View(Cat(E, CloseOpenBlock), nextIndex, "none", words, tools)
      BY CloseBehind
    <3>4. <<e>> \in Seq(Unpinged)
      BY UnpingedOne
    <3>5. PICK F \in Seq(StreamEvent) : F = Cat(E, CloseOpenBlock)
      BY <1>1, <3>3, <3>4, CatUnpinged
    <3>6. Cat(E, Cat(CloseOpenBlock, <<e>>)) = Cat(F, <<e>>)
      BY <1>1, <3>3, <3>4, <3>5, CatUnpinged
    <3>7. Cat(F, <<e>>) = Append(F, e)
      BY UnpingedOne DEF Cat
    <3>8. View(Append(F, e), m, kind, words, tools)
      <4>1. View(F, nextIndex, "none", words, tools) /\ F # <<>>
        BY <3>3, <3>5
      <4> QED
        BY <1>2, <3>1, <3>2, <4>1, ViewStart
    <3>9. Append(F, e) # <<>>
      OBVIOUS
    <3>10. Cat(CloseOpenBlock, <<e>>) \in Seq(Unpinged)
      BY <3>3, <3>4, CatTyped
    <3> QED
      BY <3>2, <3>6, <3>7, <3>8, <3>9, <3>10
  <2> QED
    BY <2>1, <2>2
<1>5. PICK e \in Unpinged : e = Event("content_block_delta", i, kind, data)
  <2>1. Event("content_block_delta", i, kind, data) \in Unpinged
    BY <1>2, EventTyped DEF EventTypes, BlockKinds
  <2> QED
    BY <2>1
<1>6. <<e>> \in Seq(Unpinged)
  BY UnpingedOne
<1>7. Delta(kind, data) = Cat(EnsureBlock(kind), <<e>>)
  BY <1>3, <1>5 DEF Delta, Cat
<1>8. PICK F \in Seq(StreamEvent) : F = Cat(E, EnsureBlock(kind))
  BY <1>1, <1>4, <1>6, CatUnpinged
<1>9. Cat(E, Delta(kind, data)) = Append(F, e)
  <2>1. Cat(E, Cat(EnsureBlock(kind), <<e>>)) = Cat(F, <<e>>)
    BY <1>1, <1>4, <1>6, <1>8, CatUnpinged
  <2>2. Cat(F, <<e>>) = Append(F, e)
    BY UnpingedOne DEF Cat
  <2> QED
    BY <1>7, <2>1, <2>2
<1>10. View(Append(F, e), m, kind, h, tools)
  <2>1. View(F, m, kind, words, tools)
    BY <1>4, <1>8
  <2> QED
    BY <1>2, <1>3, <1>5, <2>1, ViewDelta
<1>11. Append(F, e) # <<>> /\ Delta(kind, data) \in Seq(Unpinged)
  <2>1. Append(F, e) # <<>>
    OBVIOUS
  <2>2. Cat(EnsureBlock(kind), <<e>>) \in Seq(Unpinged)
    BY <1>4, <1>6, CatTyped
  <2> QED
    BY <1>7, <2>1, <2>2
<1> QED
  BY <1>3, <1>9, <1>10, <1>11

(* The two events of the end.                                              *)
LEMMA EndBehind ==
  ASSUME NEW E, NEW n, NEW words, NEW tools, View(E, n, "none", words, tools), E # <<>>,
         NEW reason \in Reasons,
         NEW F, F = Cat(E, <<Event("message_delta", 0, reason, <<>>), Event("message_stop", 0, "none", <<>>)>>)
  PROVE  /\ \A i \in DOMAIN F :
              /\ Grammatical(F, i)
              /\ F[i].type = "message_delta" <=> i = Len(F) - 1
              /\ F[i].type = "message_stop" <=> i = Len(F)
         /\ Len(F) >= 3 /\ F[Len(F) - 1].kind = reason
         /\ \A k : Gathered(F, k) = Gathered(E, k)
         /\ \A j : GatheredIn(F, j) = GatheredIn(E, j)
         /\ ToolBlocks(F) = ToolBlocks(E)
<1>1. PICK d \in StreamEvent : d = Event("message_delta", 0, reason, <<>>)
  BY EmptyData DEF EventTypes
<1>2. PICK e \in StreamEvent : e = Event("message_stop", 0, "none", <<>>)
  BY EmptyData DEF EventTypes
<1>3. d.type = "message_delta" /\ d.kind = reason /\ e.type = "message_stop"
  BY <1>1, <1>2 DEF Event
<1>4. E \in Seq(StreamEvent) /\ ReadUp(E, n, "none")
  BY ViewIndex DEF View
<1>5. PICK G \in Seq(StreamEvent) : G = Append(E, d)
  BY <1>4, AppendProperties
<1>6. PICK H \in Seq(StreamEvent) : H = Append(G, e)
  BY AppendProperties
<1>7. F = H
  <2>1. Cat(E, <<d, e>>) = Append(Append(E, d), e)
    <3> DEFINE S == StreamEvent
    <3> SUFFICES ASSUME NEW s \in Seq(S) PROVE s \o <<d, e>> = Append(Append(s, d), e)
      BY <1>4 DEF Cat
    <3>1. d \in S /\ e \in S
      OBVIOUS
    <3> HIDE DEF S
    <3> QED
      BY <3>1
  <2> QED
    BY <1>1, <1>2, <1>5, <1>6, <2>1, Zenon
<1>8. PICK m \in Nat : m = Len(E) /\ m > 0
  BY <1>4
<1>9. /\ Len(G) = m + 1 /\ G[m + 1] = d /\ \A i \in 1 .. m : G[i] = E[i]
      /\ Len(H) = m + 2 /\ H[m + 2] = e /\ \A i \in 1 .. m + 1 : H[i] = G[i]
      /\ DOMAIN H = 1 .. m + 2
  BY <1>4, <1>5, <1>6, <1>8
<1>10. /\ \A i \in 1 .. m : Grammatical(G, i) <=> Grammatical(E, i)
       /\ BlockClosed(G, m + 1) <=> BlockClosed(E, m + 1)
  BY <1>4, <1>5, <1>8, GrammaticalAppend
<1>11. /\ \A i \in 1 .. m + 1 : Grammatical(H, i) <=> Grammatical(G, i)
       /\ BlockClosed(H, m + 1) <=> BlockClosed(G, m + 1)
       /\ BlockClosed(H, m + 2) <=> BlockClosed(G, m + 2)
  <2>1. Len(G) + 1 = m + 2 /\ m + 1 \in 1 .. m + 2 /\ m + 2 \in 1 .. m + 2
    BY <1>9
  <2> QED
    BY <1>6, <1>9, <2>1, GrammaticalAppend
<1>12. BlockClosed(E, m + 1)
  BY <1>4, <1>8 DEF ReadUp, BlockClosed
<1>13. BlockClosed(G, m + 2)
  <2>1. /\ Starts(G, m + 2) = Starts(E, m + 1)
        /\ Stops(G, m + 2) = Stops(E, m + 1)
    <3>1. m + 2 = Len(E) + 2 /\ m + 1 = Len(E) + 1
      BY <1>8
    <3> QED
      BY <1>3, <1>4, <1>5, <3>1, CountAppend
  <2> QED
    BY <1>12, <2>1 DEF BlockClosed
<1>14. Grammatical(H, m + 1) /\ Grammatical(H, m + 2)
  <2>1. H[m + 1] = d /\ H[m + 2] = e /\ m + 1 # 1 /\ m + 2 # 1
    BY <1>8, <1>9
  <2>2. BlockClosed(H, m + 1) /\ BlockClosed(H, m + 2)
    BY <1>10, <1>11, <1>12, <1>13
  <2> QED
    BY <1>3, <2>1, <2>2 DEF Grammatical
<1>15. ASSUME NEW i \in 1 .. m
       PROVE  Grammatical(H, i) /\ H[i] = E[i] /\ H[i].type \notin {"message_delta", "message_stop"}
  <2>1. i \in 1 .. m + 1 /\ i \in DOMAIN E
    BY <1>4, <1>8
  <2> QED
    BY <1>4, <1>9, <1>10, <1>11, <2>1 DEF ReadUp
<1>16. ASSUME NEW i \in DOMAIN H
       PROVE  /\ Grammatical(H, i)
              /\ H[i].type = "message_delta" <=> i = Len(H) - 1
              /\ H[i].type = "message_stop" <=> i = Len(H)
  <2>1. CASE i \in 1 .. m
    BY <1>9, <1>15, <2>1
  <2>2. CASE i = m + 1
    BY <1>3, <1>9, <1>14, <2>2
  <2>3. CASE i = m + 2
    BY <1>3, <1>9, <1>14, <2>3
  <2> QED
    BY <1>9, <2>1, <2>2, <2>3
<1>17. Len(H) >= 3 /\ Len(H) - 1 = m + 1 /\ H[m + 1] = d
  BY <1>8, <1>9
<1>18. /\ \A k : Gathered(G, k) = Gathered(E, k)
       /\ \A j : GatheredIn(G, j) = GatheredIn(E, j)
       /\ ToolBlocks(G) = ToolBlocks(E)
  BY <1>3, <1>4, <1>5, DataAppend
<1>19. /\ \A k : Gathered(H, k) = Gathered(G, k)
       /\ \A j : GatheredIn(H, j) = GatheredIn(G, j)
       /\ ToolBlocks(H) = ToolBlocks(G)
  BY <1>3, <1>6, DataAppend
<1> QED
  BY <1>3, <1>7, <1>16, <1>17, <1>18, <1>19

-----------------------------------------------------------------------------
(* The steps of the translator. *)

(* What a step writes is behind what the client has seen.                  *)
LEMMA EventsWith ==
  ASSUME body \in Seq(StreamEvent), NEW w \in Seq(Unpinged), Writes(w)
  PROVE  Events' = Cat(Events, w) /\ body' \in Seq(StreamEvent)
<1>1. Passed(body \o w) = Passed(body) \o w /\ body \o w \in Seq(StreamEvent)
  BY PassedConcat
<1>2. body' = body \o w
  BY DEF Writes
<1>3. Events' = Passed(body')
  BY DEF Events, Passed
<1> QED
  BY <1>1, <1>2, <1>3, EventsPassed DEF Cat

(* A piece is gathered where it belongs, and nowhere else.                 *)
LEMMA PieceGathered ==
  ASSUME sent \in Seq(SentPiece), NEW x \in SentPiece, sent' = Append(sent, x)
  PROVE  /\ sent' \in Seq(SentPiece)
         /\ \A kind, key : Places(kind, key)' =
              IF x.kind = kind /\ x.key = key THEN Cat(Places(kind, key), <<Len(sent) + 1>>)
              ELSE Places(kind, key)
         /\ SentKeys' = SentKeys \cup (IF x.kind = "tool" THEN {x.key} ELSE {})
<1>1. PICK s \in Seq(SentPiece), r \in Seq(SentPiece) : s = sent /\ r = Append(s, x)
  BY AppendProperties
<1>2. r = sent'
  BY <1>1
<1>3. ASSUME NEW kind, NEW key
      PROVE  Places(kind, key) = PlacesIn(s, kind, key) /\ Places(kind, key)' = PlacesIn(r, kind, key)
  BY <1>1, <1>2 DEF Places, PlacesIn
<1>4. SentKeys = KeysIn(s) /\ SentKeys' = KeysIn(r)
  BY <1>1, <1>2 DEF SentKeys, KeysIn
<1>5. KeysIn(Append(s, x)) = KeysIn(s) \cup (IF x.kind = "tool" THEN {x.key} ELSE {})
  BY <1>1, KeysNext
<1>6. ASSUME NEW kind, NEW key
      PROVE  Places(kind, key)' =
               IF x.kind = kind /\ x.key = key THEN Cat(Places(kind, key), <<Len(sent) + 1>>)
               ELSE Places(kind, key)
  <2>1. PlacesIn(Append(s, x), kind, key) =
          IF x.kind = kind /\ x.key = key THEN Cat(PlacesIn(s, kind, key), <<Len(s) + 1>>)
          ELSE PlacesIn(s, kind, key)
    BY <1>1, PlacesNext
  <2>2. PICK p, q : /\ p = PlacesIn(s, kind, key) /\ q = PlacesIn(r, kind, key)
                    /\ p = Places(kind, key) /\ q = Places(kind, key)'
    BY <1>3
  <2> QED
    BY <1>1, <2>1, <2>2
<1> QED
  BY <1>1, <1>2, <1>4, <1>5, <1>6

LEMMA OtherStep ==
  ASSUME AnswerInv, NEW why \in {"none", "stop", "max_tokens", "refusal"}, PushOther(why)
  PROVE  AnswerInv'
<1> DEFINE x == [kind |-> "other", key |-> 0]
<1>1. /\ View(Events, nextIndex, open, Gist, <<>>) /\ (started <=> Events # <<>>)
      /\ pipe' # "flushed" /\ pipe' = pipe
  BY DEF AnswerInv, PushOther
<1>2. /\ MessageStart \in Seq(Unpinged) /\ Cat(Events, MessageStart) # <<>>
      /\ View(Cat(Events, MessageStart), nextIndex, open, Gist, <<>>)
  BY <1>1, StartBehind
<1>3. Events' = Cat(Events, MessageStart) /\ body' \in Seq(StreamEvent)
  BY <1>2, EventsWith DEF AnswerInv, PushOther
<1>4. /\ sent' \in Seq(SentPiece)
      /\ \A kind, key : kind # "other" => Places(kind, key)' = Places(kind, key)
      /\ SentKeys' = SentKeys
  <2>1. x \in SentPiece /\ x.kind = "other"
    BY DEF SentPiece
  <2>2. sent \in Seq(SentPiece) /\ sent' = Append(sent, x)
    BY DEF AnswerInv, PushOther
  <2> HIDE DEF x
  <2>3. /\ sent' \in Seq(SentPiece)
        /\ \A kind, key : Places(kind, key)' =
              IF x.kind = kind /\ x.key = key THEN Cat(Places(kind, key), <<Len(sent) + 1>>)
              ELSE Places(kind, key)
        /\ SentKeys' = SentKeys \cup (IF x.kind = "tool" THEN {x.key} ELSE {})
    BY <2>1, <2>2, PieceGathered
  <2> QED
    BY <2>1, <2>3
<1>5. \A k \in Kinds : Gist'[k] = Gist[k]
  BY <1>4 DEF Gist, Kinds
<1>6. View(Events', nextIndex', open', Gist', <<>>)
  <2>1. View(Cat(Events, MessageStart), nextIndex, open, Gist', <<>>)
    BY <1>2, <1>5, ViewSame
  <2> QED
    BY <1>3, <2>1 DEF PushOther
<1>7. ToolsGathered'
  <2>1. toolCalls' = toolCalls /\ ToolKeys' = ToolKeys
    BY DEF PushOther, ToolKeys
  <2>2. ToolsGathered
    BY DEF AnswerInv
  <2> QED
    BY <1>4, <2>1, <2>2 DEF ToolsGathered
<1>8. /\ started' \in BOOLEAN /\ started' /\ open' \in Kinds \cup {"none"}
      /\ finish' \in {"none", "stop", "max_tokens", "refusal"}
  BY DEF AnswerInv, PushOther
<1>9. started' <=> Events' # <<>>
  BY <1>2, <1>3, <1>8
<1> QED
  BY <1>1, <1>3, <1>4, <1>6, <1>7, <1>8, <1>9 DEF AnswerInv

LEMMA PieceStep ==
  ASSUME AnswerInv, NEW kind \in Kinds, PushPiece(kind)
  PROVE  AnswerInv'
<1> DEFINE x == [kind |-> kind, key |-> 0]
           data == <<Len(sent) + 1>>
<1>1. /\ View(Events, nextIndex, open, Gist, <<>>) /\ (started <=> Events # <<>>)
      /\ pipe' # "flushed" /\ open \in Kinds \cup {"none"}
  BY DEF AnswerInv, PushPiece
<1>2. /\ MessageStart \in Seq(Unpinged) /\ Cat(Events, MessageStart) # <<>>
      /\ View(Cat(Events, MessageStart), nextIndex, open, Gist, <<>>)
  BY <1>1, StartBehind
<1>3. data \in Seq(Nat)
  <2>1. Len(sent) + 1 \in Nat
    BY DEF AnswerInv
  <2> QED
    BY <2>1
<1>4. /\ sent' \in Seq(SentPiece)
      /\ \A k, key : Places(k, key)' = IF k = kind /\ key = 0 THEN Cat(Places(k, key), data)
                                       ELSE Places(k, key)
      /\ SentKeys' = SentKeys
  <2>1. x \in SentPiece /\ x.kind = kind /\ x.key = 0 /\ kind # "tool"
    BY DEF SentPiece, Kinds
  <2>2. sent \in Seq(SentPiece) /\ sent' = Append(sent, x)
    BY DEF AnswerInv, PushPiece
  <2> HIDE DEF x
  <2>3. /\ sent' \in Seq(SentPiece)
        /\ \A k, key : Places(k, key)' =
              IF x.kind = k /\ x.key = key THEN Cat(Places(k, key), <<Len(sent) + 1>>)
              ELSE Places(k, key)
        /\ SentKeys' = SentKeys \cup (IF x.kind = "tool" THEN {x.key} ELSE {})
    BY <2>1, <2>2, PieceGathered
  <2> QED
    BY <2>1, <2>3
<1> HIDE DEF x, data
<1>5. \A k \in Kinds : Gist'[k] = IF k = kind THEN Cat(Gist[k], data) ELSE Gist[k]
  BY <1>4 DEF Gist
<1>6. PICK E \in Seq(StreamEvent) : E = Cat(Events, MessageStart)
  BY <1>2, ViewIndex
<1>7. /\ Delta(kind, data) \in Seq(Unpinged)
      /\ View(Cat(E, Delta(kind, data)), IndexWith(kind), kind, Gist', <<>>)
      /\ Cat(E, Delta(kind, data)) # <<>>
  <2>1. View(E, nextIndex, open, Gist, <<>>) /\ E # <<>>
    BY <1>2, <1>6
  <2>2. PICK h : h = Gist'
    OBVIOUS
  <2>3. \A k \in Kinds : h[k] = IF k = kind THEN Cat(Gist[k], data) ELSE Gist[k]
    BY <1>5, <2>2
  <2>4. /\ Delta(kind, data) \in Seq(Unpinged)
        /\ View(Cat(E, Delta(kind, data)), IndexWith(kind), kind, h, <<>>)
        /\ Cat(E, Delta(kind, data)) # <<>>
    BY <1>1, <1>3, <2>1, <2>3, DeltaBehind
  <2> QED
    BY <2>2, <2>4
<1>8. Events' = Cat(E, Delta(kind, data)) /\ body' \in Seq(StreamEvent)
  <2>1. Writes(Cat(MessageStart, Delta(kind, data))) /\ body \in Seq(StreamEvent)
    BY DEF PushPiece, Cat, data, AnswerInv
  <2>2. Cat(MessageStart, Delta(kind, data)) \in Seq(Unpinged)
    BY <1>2, <1>7, CatTyped
  <2>3. Events' = Cat(Events, Cat(MessageStart, Delta(kind, data))) /\ body' \in Seq(StreamEvent)
    BY <2>1, <2>2, EventsWith
  <2>4. Events \in Seq(StreamEvent)
    BY <1>1, ViewIndex
  <2>5. Cat(Events, Cat(MessageStart, Delta(kind, data)))
          = Cat(Cat(Events, MessageStart), Delta(kind, data))
    BY <1>2, <1>7, <2>4, CatUnpinged
  <2> QED
    BY <1>6, <2>3, <2>5
<1>9. View(Events', nextIndex', open', Gist', <<>>)
  BY <1>7, <1>8 DEF PushPiece
<1>10. ToolsGathered'
  <2>1. toolCalls' = toolCalls /\ ToolKeys' = ToolKeys
    BY DEF PushPiece, ToolKeys
  <2>2. ToolsGathered /\ kind # "tool"
    BY DEF AnswerInv, Kinds
  <2> QED
    BY <1>4, <2>1, <2>2 DEF ToolsGathered
<1>11. /\ started' \in BOOLEAN /\ started' /\ open' \in Kinds \cup {"none"}
       /\ finish' \in {"none", "stop", "max_tokens", "refusal"}
  BY DEF AnswerInv, PushPiece
<1>12. started' <=> Events' # <<>>
  BY <1>7, <1>8, <1>11
<1> QED
  BY <1>1, <1>4, <1>8, <1>9, <1>10, <1>11, <1>12 DEF AnswerInv

LEMMA ToolStep ==
  ASSUME AnswerInv, NEW key \in ToolIndexes \cup {Cardinality(ToolKeys)}, PushTool(key)
  PROVE  AnswerInv'
<1> DEFINE x == [kind |-> "tool", key |-> key]
           data == <<Len(sent) + 1>>
<1>1. /\ View(Events, nextIndex, open, Gist, <<>>) /\ (started <=> Events # <<>>)
      /\ pipe' # "flushed" /\ ToolsGathered
  BY DEF AnswerInv, PushTool
<1>2. /\ MessageStart \in Seq(Unpinged) /\ Cat(Events, MessageStart) # <<>>
      /\ View(Cat(Events, MessageStart), nextIndex, open, Gist, <<>>)
  BY <1>1, StartBehind
<1>3. Events' = Cat(Events, MessageStart) /\ body' \in Seq(StreamEvent)
  BY <1>2, EventsWith DEF AnswerInv, PushTool
<1>4. data \in Seq(Nat)
  <2>1. Len(sent) + 1 \in Nat
    BY DEF AnswerInv
  <2> QED
    BY <2>1
<1>5. key \in Nat
  <2>1. Cardinality(ToolKeys) \in Nat
    BY <1>1, FS_CardinalityType DEF ToolsGathered
  <2> QED
    BY <2>1, ChunksAssumption
<1>6. /\ sent' \in Seq(SentPiece)
      /\ \A k, n : Places(k, n)' = IF k = "tool" /\ n = key THEN Cat(Places(k, n), data)
                                   ELSE Places(k, n)
      /\ SentKeys' = SentKeys \cup {key}
  <2>1. x \in SentPiece /\ x.kind = "tool" /\ x.key = key
    BY <1>5 DEF SentPiece
  <2>2. sent \in Seq(SentPiece) /\ sent' = Append(sent, x)
    BY DEF AnswerInv, PushTool
  <2> HIDE DEF x
  <2>3. /\ sent' \in Seq(SentPiece)
        /\ \A k, n : Places(k, n)' =
              IF x.kind = k /\ x.key = n THEN Cat(Places(k, n), <<Len(sent) + 1>>)
              ELSE Places(k, n)
        /\ SentKeys' = SentKeys \cup (IF x.kind = "tool" THEN {x.key} ELSE {})
    BY <2>1, <2>2, PieceGathered
  <2> QED
    BY <2>1, <2>3
<1>7. \A k \in Kinds : Gist'[k] = Gist[k]
  BY <1>6 DEF Gist, Kinds
<1>8. View(Events', nextIndex', open', Gist', <<>>)
  <2>1. View(Cat(Events, MessageStart), nextIndex, open, Gist', <<>>)
    BY <1>2, <1>7, ViewSame
  <2> QED
    BY <1>3, <2>1 DEF PushTool
<1>9. ToolsGathered'
  <2>1. /\ ToolKeys' = ToolKeys \cup {key}
        /\ \A k \in ToolKeys \cup {key} :
             toolCalls'[k] = Cat(IF k \in ToolKeys THEN toolCalls[k] ELSE <<>>,
                                 IF k = key THEN data ELSE <<>>)
    BY DEF PushTool, WithFragment, ToolKeys, Cat
  <2>2. ASSUME NEW k \in Nat
        PROVE  Places("tool", k) \in Seq(Nat) /\ Cat(Places("tool", k), <<>>) = Places("tool", k)
    <3>1. Places("tool", k) \in Seq(Nat)
      BY <1>1, EmptySeq DEF ToolsGathered
    <3> QED
      BY <3>1, ConcatEmptySeq DEF Cat
  <2>3. ToolKeys' = SentKeys' /\ ToolKeys' \subseteq Nat /\ IsFiniteSet(ToolKeys')
    BY <1>1, <1>5, <1>6, <2>1, FS_AddElement DEF ToolsGathered
  <2>4. ASSUME NEW k \in Nat
        PROVE  Places("tool", k)' = IF k \in ToolKeys' THEN toolCalls'[k] ELSE <<>>
    <3>1. Places("tool", k) = IF k \in ToolKeys THEN toolCalls[k] ELSE <<>>
      BY <1>1 DEF ToolsGathered
    <3>2. CASE k = key
      BY <1>6, <2>1, <3>1, <3>2
    <3>3. CASE k # key /\ k \in ToolKeys
      BY <1>6, <2>1, <2>2, <3>1, <3>3
    <3>4. CASE k # key /\ k \notin ToolKeys
      BY <1>6, <2>1, <3>1, <3>4
    <3> QED
      BY <3>2, <3>3, <3>4
  <2>5. ASSUME NEW k \in ToolKeys' PROVE toolCalls'[k] \in Seq(Nat)
    <3>1. k \in Nat /\ toolCalls'[k] = Places("tool", k)'
      BY <2>3, <2>4
    <3>2. Places("tool", k)' = Cat(Places("tool", k), data) \/ Places("tool", k)' = Places("tool", k)
      BY <1>6
    <3>3. Cat(Places("tool", k), data) \in Seq(Nat)
      BY <1>4, <2>2, <3>1, CatTyped
    <3> QED
      BY <2>2, <3>1, <3>2, <3>3
  <2> QED
    BY <2>3, <2>4, <2>5 DEF ToolsGathered
<1>10. /\ started' \in BOOLEAN /\ started' /\ open' \in Kinds \cup {"none"}
       /\ finish' \in {"none", "stop", "max_tokens", "refusal"}
  BY DEF AnswerInv, PushTool
<1>11. started' <=> Events' # <<>>
  BY <1>2, <1>3, <1>10
<1> QED
  BY <1>1, <1>3, <1>6, <1>8, <1>9, <1>10, <1>11 DEF AnswerInv

-----------------------------------------------------------------------------
(* The end of an answer. *)

(* What is seen of an answer that has ended, as the properties put it.     *)
Ended(F) ==
  /\ F \in Seq(StreamEvent) /\ Len(F) >= 3
  /\ \A i \in DOMAIN F :
       /\ Grammatical(F, i)
       /\ F[i].type = "message_delta" <=> i = Len(F) - 1
       /\ F[i].type = "message_stop" <=> i = Len(F)
  /\ \A k \in Kinds : Gathered(F, k) = Gist[k]
  /\ F[Len(F) - 1].kind = StopReason
  /\ \E n \in Nat, whole \in SUBSET ToolKeys :
       /\ ToolBlocks(F) = Numbers(n, Cardinality(ToolKeys))
       /\ \A i \in 1 .. Cardinality(ToolKeys) :
            GatheredIn(F, n + i - 1) =
              IF InOrder(ToolKeys)[i] \in whole THEN toolCalls[InOrder(ToolKeys)[i]] ELSE <<>>

LEMMA KeysInOrder ==
  ASSUME ToolsGathered
  PROVE  /\ Cardinality(ToolKeys) \in Nat /\ DOMAIN InOrder(ToolKeys) = 1 .. Cardinality(ToolKeys)
         /\ \A i \in 1 .. Cardinality(ToolKeys) :
              /\ InOrder(ToolKeys)[i] \in ToolKeys
              /\ toolCalls[InOrder(ToolKeys)[i]] \in Seq(Nat)
              /\ toolCalls[InOrder(ToolKeys)[i]] = Places("tool", InOrder(ToolKeys)[i])
         /\ InOrder(ToolKeys) # <<>> <=> ToolKeys # {}
<1>1. ToolKeys \subseteq Nat /\ IsFiniteSet(ToolKeys)
  BY DEF ToolsGathered
<1>2. InOrder(ToolKeys) \in [1 .. Cardinality(ToolKeys) -> ToolKeys] /\ Cardinality(ToolKeys) \in Nat
  BY <1>1, InOrderType, FS_CardinalityType
<1>3. \A k \in ToolKeys : toolCalls[k] \in Seq(Nat) /\ toolCalls[k] = Places("tool", k)
  BY <1>1 DEF ToolsGathered
<1>4. Cardinality(ToolKeys) = 0 <=> ToolKeys = {}
  BY <1>1, FS_EmptySet
<1>5. InOrder(ToolKeys) # <<>> <=> Cardinality(ToolKeys) # 0
  <2> SUFFICES ASSUME NEW N \in Nat, NEW s \in [1 .. N -> ToolKeys] PROVE s # <<>> <=> N # 0
    BY <1>2
  <2> QED
    OBVIOUS
<1> QED
  BY <1>2, <1>3, <1>4, <1>5

(* The answer that has ended says what the answer in one piece says.       *)
LEMMA EndedSound ==
  ASSUME ToolsGathered, NEW F, Ended(F), finish \in {"none", "stop", "max_tokens", "refusal"},
         Events' = F, pipe' = "flushed", UNCHANGED <<toolCalls, finish, sent>>
  PROVE  StreamSound'
<1>1. StreamWellFormed(F)'
  BY DEF Ended, StreamWellFormed
<1>2. \A kind, key : Places(kind, key)' = Places(kind, key)
  BY DEF Places
<1>3. \A kind \in Kinds : Gathered(F, kind) = Places(kind, 0)
  BY DEF Ended, Gist
<1>4. PICK n \in Nat, whole \in SUBSET ToolKeys :
        /\ ToolBlocks(F) = Numbers(n, Cardinality(ToolKeys))
        /\ \A i \in 1 .. Cardinality(ToolKeys) :
             GatheredIn(F, n + i - 1) =
               IF InOrder(ToolKeys)[i] \in whole THEN toolCalls[InOrder(ToolKeys)[i]] ELSE <<>>
  BY DEF Ended
<1> DEFINE blocks == ToolBlocks(F)
           keys   == InOrder(ToolKeys)
           N      == Cardinality(ToolKeys)
           read   == [i \in DOMAIN blocks |-> GatheredIn(F, blocks[i])]
           said   == [i \in DOMAIN keys |-> IF keys[i] \in whole THEN Places("tool", keys[i]) ELSE <<>>]
<1>5. read = said
  <2>1. DOMAIN blocks = 1 .. N /\ DOMAIN keys = 1 .. N /\ \A i \in 1 .. N : blocks[i] = n + i - 1
    BY <1>4, KeysInOrder DEF Numbers
  <2>2. \A i \in 1 .. N : GatheredIn(F, blocks[i]) = IF keys[i] \in whole THEN Places("tool", keys[i]) ELSE <<>>
    BY <1>4, <2>1, KeysInOrder
  <2> HIDE DEF blocks, keys, N
  <2> QED
    BY <2>1, <2>2
<1>6. F[Len(F) - 1].kind =
        IF keys # <<>> /\ finish \in {"none", "stop"} THEN "tool_use"
        ELSE IF finish \in {"none", "stop"} THEN "end_turn" ELSE finish
  BY KeysInOrder DEF Ended, StopReason
<1>7. whole \in SUBSET SentKeys /\ SentKeys = ToolKeys /\ SentKeys' = SentKeys
  BY DEF ToolsGathered, SentKeys
<1>8. Completion(whole)' =
        WholeAnswer(Places("thinking", 0), Places("text", 0), said,
          IF keys # <<>> /\ finish \in {"none", "stop"} THEN "tool_use"
          ELSE IF finish \in {"none", "stop"} THEN "end_turn" ELSE finish)
  BY <1>2, <1>7 DEF Completion
<1>9. WholeAnswer(Gathered(F, "thinking"), Gathered(F, "text"), read, F[Len(F) - 1].kind)
        = Completion(whole)'
  <2>1. Gathered(F, "thinking") = Places("thinking", 0) /\ Gathered(F, "text") = Places("text", 0)
    BY <1>3 DEF Kinds
  <2> HIDE DEF read, said, keys
  <2> QED
    BY <1>5, <1>6, <1>8, <2>1
<1>10. NothingLost(F)'
  BY <1>2, <1>3, <1>7, <1>9 DEF NothingLost
<1> QED
  BY <1>1, <1>10 DEF StreamSound

LEMMA EndWritten ==
  ASSUME AnswerInv, pipe = "open", NEW whole \in SUBSET ToolKeys
  PROVE  End(whole) \in Seq(Unpinged) /\ Ended(Cat(Events, End(whole)))
<1> DEFINE N  == Cardinality(ToolKeys)
           TE == [i \in 1 .. N |-> ToolEvents(i, whole)]
           W  == [i \in 1 .. N |-> InOrder(ToolKeys)[i] \in whole]
           D  == [i \in 1 .. N |-> toolCalls[InOrder(ToolKeys)[i]]]
           T  == <<Event("message_delta", 0, StopReason, <<>>), Event("message_stop", 0, "none", <<>>)>>
<1>1. /\ View(Events, nextIndex, open, Gist, <<>>) /\ (started <=> Events # <<>>)
      /\ open \in Kinds \cup {"none"} /\ ToolsGathered
      /\ finish \in {"none", "stop", "max_tokens", "refusal"}
  BY DEF AnswerInv
<1>2. N \in Nat /\ nextIndex \in Nat /\ Events \in Seq(StreamEvent)
  BY <1>1, KeysInOrder, ViewIndex
<1>3. /\ MessageStart \in Seq(Unpinged) /\ Cat(Events, MessageStart) # <<>>
      /\ View(Cat(Events, MessageStart), nextIndex, open, Gist, <<>>)
  BY <1>1, StartBehind
<1>4. PICK E1 \in Seq(StreamEvent) : E1 = Cat(Events, MessageStart)
  BY <1>3, ViewIndex
<1>5. /\ CloseOpenBlock \in Seq(Unpinged) /\ Cat(E1, CloseOpenBlock) # <<>>
      /\ View(Cat(E1, CloseOpenBlock), nextIndex, "none", Gist, <<>>)
  BY <1>1, <1>3, <1>4, CloseBehind
<1>6. PICK E2 \in Seq(StreamEvent) : E2 = Cat(E1, CloseOpenBlock)
  BY <1>5, ViewIndex
<1>7. \A i \in 1 .. N : /\ TE[i] = ToolPart(nextIndex + i - 1, W[i], D[i])
                        /\ W[i] \in BOOLEAN /\ D[i] \in Seq(Nat)
  <2> SUFFICES ASSUME NEW i \in 1 .. N
               PROVE  TE[i] = ToolPart(nextIndex + i - 1, W[i], D[i])
                      /\ W[i] \in BOOLEAN /\ D[i] \in Seq(Nat)
    OBVIOUS
  <2>1. TE[i] = ToolEvents(i, whole) /\ D[i] = toolCalls[InOrder(ToolKeys)[i]]
        /\ W[i] = (InOrder(ToolKeys)[i] \in whole)
    OBVIOUS
  <2>2. D[i] \in Seq(Nat)
    BY <1>1, <2>1, KeysInOrder
  <2>4. W[i] \in BOOLEAN
    BY <2>1
  <2> HIDE DEF TE, W, D
  <2>3. TE[i] = ToolPart(nextIndex + i - 1, W[i], D[i])
    <3>1. CASE W[i]
      <4>1. InOrder(ToolKeys)[i] \in whole
        BY <2>1, <3>1
      <4> QED
        BY <2>1, <3>1, <4>1, Zenon DEF ToolEvents, ToolPart
    <3>2. CASE ~ W[i]
      <4>1. InOrder(ToolKeys)[i] \notin whole
        BY <2>1, <3>2
      <4> QED
        BY <2>1, <3>2, <4>1, Zenon DEF ToolEvents, ToolPart
    <3> QED
      BY <3>1, <3>2
  <2> QED
    BY <2>2, <2>3, <2>4
<1>8. FlushToolCalls(whole) = FlattenSeq(UpTo(N, TE))
  BY DEF FlushToolCalls, UpTo
<1>9. T \in Seq(Unpinged) /\ StopReason \in Reasons
  <2>1. StopReason \in Reasons
    BY <1>1 DEF StopReason, Reasons
  <2>2. PICK d \in Unpinged, e \in Unpinged :
          d = Event("message_delta", 0, StopReason, <<>>) /\ e = Event("message_stop", 0, "none", <<>>)
    <3>1. Event("message_delta", 0, StopReason, <<>>) \in Unpinged
      BY <2>1, EmptyData DEF EventTypes
    <3>2. Event("message_stop", 0, "none", <<>>) \in Unpinged
      BY EmptyData DEF EventTypes
    <3> QED
      BY <3>1, <3>2
  <2>3. <<d, e>> \in Seq(Unpinged)
    OBVIOUS
  <2> QED
    BY <2>1, <2>2, <2>3
<1> HIDE DEF TE, W, D, T
<1>10. ToolsBehind(N, E2, nextIndex, Gist, TE, W, D)
  <2>1. View(E2, nextIndex, "none", Gist, <<>>) /\ E2 # <<>>
    BY <1>5, <1>6
  <2> HIDE DEF N
  <2> QED
    BY <1>2, <1>7, <2>1, ToolsView
<1>11. /\ UpTo(N, TE) \in SeqsOf(Unpinged) /\ Cat(E2, FlushToolCalls(whole)) # <<>>
       /\ View(Cat(E2, FlushToolCalls(whole)), nextIndex + N, "none", Gist, Numbers(nextIndex, N))
       /\ \A i \in 1 .. N : GatheredIn(Cat(E2, FlushToolCalls(whole)), nextIndex + i - 1)
                              = IF W[i] THEN D[i] ELSE <<>>
  BY <1>8, <1>10 DEF ToolsBehind
<1>12. FlushToolCalls(whole) \in Seq(Unpinged)
  BY <1>8, <1>11, FlattenType DEF SeqsOf
<1>13. PICK E3 \in Seq(StreamEvent) : E3 = Cat(E2, FlushToolCalls(whole))
  BY <1>11, ViewIndex
<1>14. End(whole) = Cat(Cat(Cat(MessageStart, CloseOpenBlock), FlushToolCalls(whole)), T)
  BY DEF End, Cat, T
<1>15. /\ Cat(MessageStart, CloseOpenBlock) \in Seq(Unpinged)
       /\ Cat(Cat(MessageStart, CloseOpenBlock), FlushToolCalls(whole)) \in Seq(Unpinged)
       /\ End(whole) \in Seq(Unpinged)
  <2>1. Cat(MessageStart, CloseOpenBlock) \in Seq(Unpinged)
    BY <1>3, <1>5, CatTyped
  <2>2. Cat(Cat(MessageStart, CloseOpenBlock), FlushToolCalls(whole)) \in Seq(Unpinged)
    BY <1>12, <2>1, CatTyped
  <2>3. Cat(Cat(Cat(MessageStart, CloseOpenBlock), FlushToolCalls(whole)), T) \in Seq(Unpinged)
    BY <1>9, <2>2, CatTyped
  <2> QED
    BY <1>14, <2>1, <2>2, <2>3
<1>16. Cat(Events, End(whole)) = Cat(E3, T)
  <2>1. Cat(Events, Cat(MessageStart, CloseOpenBlock)) = E2
    BY <1>2, <1>3, <1>4, <1>5, <1>6, CatUnpinged
  <2>2. Cat(Events, Cat(Cat(MessageStart, CloseOpenBlock), FlushToolCalls(whole))) = E3
    BY <1>2, <1>12, <1>13, <1>15, <2>1, CatUnpinged
  <2>3. Cat(Events, Cat(Cat(Cat(MessageStart, CloseOpenBlock), FlushToolCalls(whole)), T)) = Cat(E3, T)
    BY <1>2, <1>9, <1>15, <2>2, CatUnpinged
  <2> QED
    BY <1>14, <2>3
<1>17. PICK F \in Seq(StreamEvent) : F = Cat(E3, T)
  BY <1>9, <1>13, CatUnpinged
<1>18. View(E3, nextIndex + N, "none", Gist, Numbers(nextIndex, N)) /\ E3 # <<>>
  BY <1>11, <1>13
<1>19. /\ \A i \in DOMAIN F :
            /\ Grammatical(F, i)
            /\ F[i].type = "message_delta" <=> i = Len(F) - 1
            /\ F[i].type = "message_stop" <=> i = Len(F)
       /\ Len(F) >= 3 /\ F[Len(F) - 1].kind = StopReason
       /\ \A k : Gathered(F, k) = Gathered(E3, k)
       /\ \A j : GatheredIn(F, j) = GatheredIn(E3, j)
       /\ ToolBlocks(F) = ToolBlocks(E3)
  <2>1. F = Cat(E3, <<Event("message_delta", 0, StopReason, <<>>), Event("message_stop", 0, "none", <<>>)>>)
    BY <1>17 DEF T
  <2> QED
    BY <1>9, <1>18, <2>1, EndBehind
<1>20. /\ \A k \in Kinds : Gathered(F, k) = Gist[k]
       /\ ToolBlocks(F) = Numbers(nextIndex, N)
  BY <1>18, <1>19 DEF View
<1>21. \A i \in 1 .. N : GatheredIn(F, nextIndex + i - 1) =
         IF InOrder(ToolKeys)[i] \in whole THEN toolCalls[InOrder(ToolKeys)[i]] ELSE <<>>
  BY <1>11, <1>13, <1>19 DEF W, D
<1>22. Ended(F)
  BY <1>2, <1>17, <1>19, <1>20, <1>21 DEF Ended
<1> QED
  BY <1>15, <1>16, <1>17, <1>22

LEMMA FlushStep ==
  ASSUME AnswerInv, FlushPipe
  PROVE  AnswerInv'
<1>1. PICK whole \in SUBSET ToolKeys : Writes(End(whole))
  BY DEF FlushPipe
<1>2. End(whole) \in Seq(Unpinged) /\ Ended(Cat(Events, End(whole)))
  BY EndWritten DEF FlushPipe
<1>3. Events' = Cat(Events, End(whole)) /\ body' \in Seq(StreamEvent)
  BY <1>1, <1>2, EventsWith DEF AnswerInv
<1>4. StreamSound'
  <2>1. /\ pipe' = "flushed" /\ UNCHANGED <<toolCalls, finish, sent>>
        /\ ToolsGathered /\ finish \in {"none", "stop", "max_tokens", "refusal"}
    BY DEF FlushPipe, AnswerInv
  <2> QED
    BY <1>2, <1>3, <2>1, EndedSound
<1>5. ToolsGathered'
  <2>1. UNCHANGED <<toolCalls, ToolKeys, SentKeys>> /\ \A kind, key : Places(kind, key)' = Places(kind, key)
    BY DEF FlushPipe, ToolKeys, SentKeys, Places
  <2>2. ToolsGathered
    BY DEF AnswerInv
  <2> QED
    BY <2>1, <2>2 DEF ToolsGathered
<1> QED
  BY <1>3, <1>4, <1>5 DEF AnswerInv, FlushPipe

(* What changes nothing of the answer.                                     *)
LEMMA AsBefore ==
  ASSUME AnswerInv, Events' = Events, body' \in Seq(StreamEvent),
         UNCHANGED <<started, open, nextIndex, toolCalls, finish, sent>>,
         pipe' = pipe \/ (pipe = "open" /\ pipe' = "cancelled")
  PROVE  AnswerInv'
<1>1. UNCHANGED <<toolCalls, ToolKeys, SentKeys>> /\ \A kind, key : Places(kind, key)' = Places(kind, key)
  BY DEF ToolKeys, SentKeys, Places
<1>2. ToolsGathered' /\ Gist' = Gist
  BY <1>1 DEF AnswerInv, ToolsGathered, Gist
<1>3. CASE pipe = "flushed"
  <2>1. pipe' = pipe /\ StreamSound
    BY <1>3 DEF AnswerInv
  <2>2. StreamSound'
    <3>1. \A whole : Completion(whole)' = Completion(whole)
      BY <1>1 DEF Completion
    <3>2. StreamWellFormed(Events)'
      BY <2>1 DEF StreamSound, StreamWellFormed
    <3>3. NothingLost(Events)'
      BY <1>1, <2>1, <3>1 DEF StreamSound, NothingLost
    <3> QED
      BY <3>2, <3>3 DEF StreamSound
  <2> QED
    BY <1>2, <1>3, <2>1, <2>2 DEF AnswerInv
<1>4. CASE pipe # "flushed"
  BY <1>2, <1>4 DEF AnswerInv
<1> QED
  BY <1>3, <1>4

LEMMA AnswerStep == AnswerInv /\ [TranslateNext]_translateVars => AnswerInv'
<1> SUFFICES ASSUME AnswerInv, [TranslateNext]_translateVars PROVE AnswerInv'
  OBVIOUS
<1>1. ASSUME NEW why \in {"none", "stop", "max_tokens", "refusal"}, PushOther(why) PROVE AnswerInv'
  BY <1>1, OtherStep
<1>2. ASSUME NEW kind \in Kinds, PushPiece(kind) PROVE AnswerInv'
  BY <1>2, PieceStep
<1>3. ASSUME NEW key \in ToolIndexes \cup {Cardinality(ToolKeys)}, PushTool(key) PROVE AnswerInv'
  BY <1>3, ToolStep
<1>4. ASSUME FlushPipe PROVE AnswerInv'
  BY <1>4, FlushStep
<1>5. ASSUME CancelPipe PROVE AnswerInv'
  <2>1. Events' = Events /\ body' \in Seq(StreamEvent)
    BY <1>5 DEF CancelPipe, Events, AnswerInv
  <2> QED
    BY <1>5, <2>1, AsBefore DEF CancelPipe
<1>6. ASSUME Ping PROVE AnswerInv'
  <2>1. Passed(body') = Passed(body) /\ body' \in Seq(StreamEvent)
    BY <1>6, PassedPing DEF Ping, Writes, AnswerInv
  <2>2. Events' = Events
    BY <2>1, EventsPassed DEF Events, Passed
  <2> QED
    BY <1>6, <2>1, <2>2, AsBefore DEF Ping
<1>7. ASSUME UNCHANGED translateVars PROVE AnswerInv'
  <2>1. Events' = Events /\ body' \in Seq(StreamEvent)
    BY <1>7 DEF translateVars, Events, AnswerInv
  <2> QED
    BY <1>7, <2>1, AsBefore DEF translateVars
<1> QED
  BY <1>1, <1>2, <1>3, <1>4, <1>5, <1>6, <1>7 DEF TranslateNext

(* Until the end a reader has read what was sent and waits for the end.    *)
LEMMA AnswerInvSound == AnswerInv => StreamSound
<1> SUFFICES ASSUME AnswerInv, pipe # "flushed" PROVE StreamSound
  BY DEF AnswerInv
<1>1. View(Events, nextIndex, open, Gist, <<>>)
  BY DEF AnswerInv
<1>2. StreamWellFormed(Events)
  BY <1>1 DEF View, ReadUp, StreamWellFormed
<1>3. NothingLost(Events)
  BY <1>1 DEF View, NothingLost, Gist
<1> QED
  BY <1>2, <1>3 DEF StreamSound

(* The client of the router reads a message of its own protocol that says  *)
(* what upstream said.                                                     *)
THEOREM StreamAlwaysSound == TranslateSpec => []StreamSound
<1> QED
  BY AnswerInitInv, AnswerStep, AnswerInvSound, PTL DEF TranslateSpec

-----------------------------------------------------------------------------
(* The parts of the platform, together (MCPlatform). *)

(* In the model that has them all, every part behaves as it does alone.    *)
THEOREM PartsBehave ==
  MCSpec => /\ Spec /\ TokenSpec /\ RateSpec /\ BudgetSpec
            /\ DefinitionSpec /\ TaskSpec /\ CredentialSpec
            /\ ProjectSpec /\ MembersSpec /\ StarsSpec /\ ListingSpec
            /\ WorkerSpec /\ PoolSpec /\ InstallSpec /\ DreamSpec /\ McpSpec
            /\ UsageSpec /\ RequestSpec /\ TranslateSpec
<1>1. MCInit =>
        /\ Init /\ TokenInit /\ RateInit /\ BudgetInit /\ DefinitionInit
        /\ TaskInit /\ CredentialInit /\ ProjectInit /\ MembersInit /\ StarsInit
        /\ WorkerInit /\ PoolInit /\ InstallInit /\ DreamInit /\ McpInit /\ ListingInit
        /\ UsageInit /\ RequestInit /\ TranslateInit
  BY DEF MCInit
<1>2. [MCNext]_mcVars => [Next]_vars
  BY DEF MCNext, mcVars
<1>3. [MCNext]_mcVars => [TokenNext]_tokenVars
  BY DEF MCNext, mcVars
<1>4. [MCNext]_mcVars => [RateNext]_rateVars
  BY DEF MCNext, mcVars
<1>5. [MCNext]_mcVars => [BudgetNext]_budgetVars
  BY DEF MCNext, mcVars
<1>6. [MCNext]_mcVars => [DefinitionNext]_definitionVars
  BY DEF MCNext, mcVars
<1>7. [MCNext]_mcVars => [TaskNext]_taskVars
  BY DEF MCNext, mcVars
<1>8. [MCNext]_mcVars => [CredentialNext]_credentialVars
  BY DEF MCNext, mcVars, CredentialNext
<1>9. [MCNext]_mcVars => [ProjectNext]_projectVars
  BY DEF MCNext, mcVars
<1>10. [MCNext]_mcVars => [MembersNext]_memberVars
  BY DEF MCNext, mcVars
<1>11. [MCNext]_mcVars => [StarsNext]_starVars
  BY DEF MCNext, mcVars
<1>12. [MCNext]_mcVars => [WorkerNext]_workerVars
  BY DEF MCNext, mcVars
<1>13. [MCNext]_mcVars => [PoolNext]_poolVars
  BY DEF MCNext, mcVars
<1>14. [MCNext]_mcVars => [InstallNext]_installVars
  BY DEF MCNext, mcVars
<1>15. [MCNext]_mcVars => [DreamNext]_dreamVars
  BY DEF MCNext, mcVars
<1>16. [MCNext]_mcVars => [McpNext]_mcpVars
  BY DEF MCNext, mcVars
<1>17. [MCNext]_mcVars => [ListingNext]_listingVars
  BY DEF MCNext, mcVars
<1>18. [MCNext]_mcVars => [UsageNext]_meterStreamVars
  BY DEF MCNext, mcVars
<1>19. [MCNext]_mcVars => [RequestNext]_requestVars
  BY DEF MCNext, mcVars
<1>20. [MCNext]_mcVars => [TranslateNext]_translateVars
  BY DEF MCNext, mcVars
<1> QED
  BY <1>1, <1>2, <1>3, <1>4, <1>5, <1>6, <1>7, <1>8, <1>9, <1>10, <1>11, <1>12, <1>13, <1>14, <1>15,
     <1>16, <1>17, <1>18, <1>19, <1>20, PTL
  DEF MCSpec, Spec, TokenSpec, RateSpec, BudgetSpec, DefinitionSpec, TaskSpec,
     CredentialSpec, ProjectSpec, MembersSpec, StarsSpec, WorkerSpec, PoolSpec,
     InstallSpec, DreamSpec, McpSpec, ListingSpec, UsageSpec, RequestSpec,
     TranslateSpec

(* The types of the parts that state one: the requests that create a run,  *)
(* the cache of tokens, and the rate limiter.                              *)
THEOREM PlatformTypesCorrect == MCSpec => []TypesOK
<1>1. IInv /\ TokenInv /\ RateInv => TypesOK
  BY DEF IInv, TokenInv, RateInv, TypesOK
<1> QED
  BY <1>1, PartsBehave, InitIInv, StepIInv, TokenInitInv, TokenStep, RateInitInv, RateStep, PTL
  DEF Spec, TokenSpec, RateSpec

(* Who is let in was within the rate of his token and within the budget he *)
(* is held to.                                                             *)
THEOREM AdmissionAlwaysHolds == MCSpec => AdmissionHolds
<1> QED
  BY PartsBehave, WindowAlwaysHolds, BudgetAlwaysHolds, PTL DEF AdmissionHolds

(* A project's current agent is the one set last, it has an owner, and the *)
(* stars of an entry are as many as have starred it.                       *)
THEOREM ProjectsAlwaysSound == MCSpec => []ProjectSound
<1>1. CurrentIsLastSet /\ KeepsAnOwner /\ StarsCounted => ProjectSound
  BY DEF ProjectSound
<1> QED
  BY <1>1, PartsBehave, CurrentAlwaysLastSet, AlwaysAnOwner, StarsAlwaysCounted, PTL

(* What an upstream is asked is what the client asked, and what the client *)
(* reads is what the upstream answered: see RequestSound and StreamSound.  *)
THEOREM TranslationAlwaysSound == MCSpec => []TranslationSound
<1>1. RequestSound /\ StreamSound => TranslationSound
  BY DEF TranslationSound
<1> QED
  BY <1>1, PartsBehave, RequestAlwaysSound, StreamAlwaysSound, PTL

(* What the packages around a run keep in memory and on disk is sound: see *)
(* PackagesSound.                                                          *)
THEOREM PackagesAlwaysSound == MCSpec => []PackagesSound
<1>1. SessionsSound /\ PoolSound /\ InstalledIsWhole /\ FactsKept /\ OwnAnswer /\ StoppedAfterUse
        => PackagesSound
  BY DEF PackagesSound
<1> QED
  BY <1>1, PartsBehave, SessionsAlwaysSound, PoolAlwaysSound, InstalledAlwaysWhole,
     FactsAlwaysKept, ToolServerSound, PTL
=============================================================================
