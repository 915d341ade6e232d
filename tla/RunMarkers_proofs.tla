-------------------------- MODULE RunMarkers_proofs --------------------------
(* What the log of a run looks like to its readers follows from the        *)
(* abstract specification RunMarkers alone.                                *)
EXTENDS RunMarkers, TLAPS

(* The initial state has the invariant: nothing is logged yet. *)
LEMMA MarkersInitInv == MarkersInit => MarkersInv
  BY DEF MarkersInit, MarkersInv, MarkersTypeOK, Bracketed, PhaseMatchesLog, OpenedInLog

(* A writer that appends at the end of its run's log: every earlier entry  *)
(* stays where it was.                                                     *)
LEMMA LoggedEntries ==
  ASSUME log \in [Runs -> Seq(Events)], NEW w \in Writers, at[w] \in Runs,
         NEW type \in {"started"} \cup PlainEvents \cup DoneEvents, Logged(w, type)
  PROVE  /\ log' \in [Runs -> Seq(Events)]
         /\ \A r \in Runs : r # at[w] => log'[r] = log[r]
         /\ Len(log'[at[w]]) = Len(log[at[w]]) + 1
         /\ log'[at[w]][Len(log[at[w]]) + 1] = [type |-> type, by |-> w]
         /\ \A i \in DOMAIN log[at[w]] : log'[at[w]][i] = log[at[w]][i]
<1> DEFINE event == [type |-> type, by |-> w]
<1>1. event \in Events
  BY DEF Events
<1>2. log[at[w]] \in Seq(Events)
  OBVIOUS
<1>3. log' = [log EXCEPT ![at[w]] = Append(log[at[w]], event)]
  BY DEF Logged
<1> HIDE DEF event
<1>4. log'[at[w]] = Append(log[at[w]], event) /\ \A r \in Runs : r # at[w] => log'[r] = log[r]
  BY <1>3
<1>5. /\ Append(log[at[w]], event) \in Seq(Events)
      /\ Len(Append(log[at[w]], event)) = Len(log[at[w]]) + 1
      /\ Append(log[at[w]], event)[Len(log[at[w]]) + 1] = event
      /\ \A i \in DOMAIN log[at[w]] : Append(log[at[w]], event)[i] = log[at[w]][i]
  BY <1>1, <1>2
<1>6. log' \in [Runs -> Seq(Events)]
  BY <1>3, <1>5
<1> QED
  BY <1>4, <1>5, <1>6 DEF event

(* The step lemma. *)
LEMMA MarkersStep == MarkersInv /\ [MarkersNext]_markerVars => MarkersInv'
<1> SUFFICES ASSUME MarkersInv, [MarkersNext]_markerVars PROVE MarkersInv'
  OBVIOUS
<1> USE DEF MarkersInv
<1>1. CASE UNCHANGED markerVars
  <2>1. log' = log /\ phase' = phase /\ at' = at
    BY <1>1 DEF markerVars
  <2>2. MarkersTypeOK' /\ PhaseMatchesLog' /\ OpenedInLog'
    BY <2>1 DEF MarkersTypeOK, PhaseMatchesLog, OpenedInLog
  <2>3. Bracketed'
    BY <2>1 DEF Bracketed
  <2> QED
    BY <2>2, <2>3
<1>2. ASSUME NEW w \in Writers, NEW r \in Runs, Join(w, r) PROVE MarkersInv'
  <2>1. MarkersTypeOK'
    BY <1>2 DEF Join, MarkersTypeOK
  <2>2. Bracketed'
    BY <1>2 DEF Join, Bracketed
  <2>3. \A s \in Runs : \A i \in DOMAIN log[s] : log[s][i].by # w
    BY <1>2 DEF Join, PhaseMatchesLog
  <2>4. PhaseMatchesLog'
    <3> SUFFICES ASSUME NEW s \in Runs, NEW i \in DOMAIN log[s]
                 PROVE /\ at'[log[s][i].by] = s
                       /\ log[s][i].type \in DoneEvents => phase[log[s][i].by] = "closed"
      BY <1>2 DEF Join, PhaseMatchesLog
    <3>1. log[s][i] \in Events
      BY DEF MarkersTypeOK
    <3> QED
      BY <3>1, <1>2, <2>3 DEF Join, PhaseMatchesLog, MarkersTypeOK, Events
  <2>5. OpenedInLog'
    BY <1>2 DEF Join, OpenedInLog, MarkersTypeOK
  <2> QED
    BY <2>1, <2>2, <2>4, <2>5
<1>3. ASSUME NEW w \in Writers, at[w] \in Runs, phase[w] # "closed",
             NEW type \in {"started"} \cup PlainEvents \cup DoneEvents, Logged(w, type),
             UNCHANGED at,
             \/ phase' = phase /\ type \in PlainEvents
             \/ phase' = [phase EXCEPT ![w] = "open"] /\ type = "started"
             \/ /\ phase' = [phase EXCEPT ![w] = "closed"]
                /\ type \in DoneEvents /\ phase[w] = "open"
      PROVE  MarkersInv'
  <2> DEFINE r == at[w]
  <2> DEFINE n == Len(log[r]) + 1
  <2>0. /\ log' \in [Runs -> Seq(Events)]
        /\ \A s \in Runs : s # r => log'[s] = log[s]
        /\ Len(log'[r]) = n
        /\ log'[r][n] = [type |-> type, by |-> w]
        /\ \A i \in DOMAIN log[r] : log'[r][i] = log[r][i]
    BY <1>3, LoggedEntries DEF MarkersTypeOK
  <2>1. r \in Runs /\ log[r] \in Seq(Events) /\ Len(log[r]) \in Nat /\ log'[r] \in Seq(Events)
    BY <1>3, <2>0 DEF MarkersTypeOK
  <2>2. DOMAIN log[r] = 1 .. n - 1 /\ DOMAIN log'[r] = 1 .. n /\ n \in Nat \ {0}
    BY <2>0, <2>1
  <2> HIDE DEF n
  <2>3. MarkersTypeOK'
    BY <1>3, <2>0 DEF MarkersTypeOK
  <2>4. \A i \in DOMAIN log[r] : log[r][i].by = w => log[r][i].type \notin DoneEvents
    BY <1>3, <2>1 DEF PhaseMatchesLog
  <2>5. \A s \in Runs : \A i \in DOMAIN log'[s] :
          \/ s = r /\ i = n
          \/ i \in DOMAIN log[s] /\ log'[s][i] = log[s][i]
    <3> SUFFICES ASSUME NEW s \in Runs, NEW i \in DOMAIN log'[s]
                 PROVE  \/ s = r /\ i = n
                        \/ i \in DOMAIN log[s] /\ log'[s][i] = log[s][i]
      OBVIOUS
    <3>1. CASE s # r
      BY <3>1, <2>0
    <3>2. CASE s = r
      <4>1. i \in 1 .. n
        BY <3>2, <2>2
      <4>2. i = n \/ i \in 1 .. n - 1
        BY <4>1, <2>2
      <4> QED
        BY <4>2, <3>2, <2>0, <2>2
    <3> QED
      BY <3>1, <3>2
  <2>6. Bracketed'
    <3> SUFFICES ASSUME NEW s \in Runs, NEW i \in DOMAIN log'[s], log'[s][i].type \in DoneEvents
                 PROVE /\ \E j \in 1 .. i - 1 : log'[s][j] = [type |-> "started", by |-> log'[s][i].by]
                       /\ \A j \in DOMAIN log'[s] : j > i => log'[s][j].by # log'[s][i].by
      BY DEF Bracketed
    <3>1. CASE s = r /\ i = n
      <4>1. type \in DoneEvents /\ phase[w] = "open" /\ log'[s][i].by = w
        BY <1>3, <2>0, <3>1 DEF DoneEvents, PlainEvents
      <4>2. PICK j \in DOMAIN log[r] : log[r][j] = [type |-> "started", by |-> w]
        BY <4>1 DEF OpenedInLog
      <4>3. j \in 1 .. i - 1 /\ log'[r][j] = log[r][j]
        BY <2>0, <2>2, <3>1
      <4>4. \A k \in DOMAIN log'[s] : ~ (k > i)
        BY <2>2, <3>1
      <4> QED
        BY <4>1, <4>2, <4>3, <4>4, <3>1
    <3>2. CASE i \in DOMAIN log[s] /\ log'[s][i] = log[s][i]
      <4>1. /\ \E j \in 1 .. i - 1 : log[s][j] = [type |-> "started", by |-> log[s][i].by]
            /\ \A j \in DOMAIN log[s] : j > i => log[s][j].by # log[s][i].by
        BY <3>2 DEF Bracketed
      <4>2. log[s] \in Seq(Events)
        BY DEF MarkersTypeOK
      <4>3. \A j \in 1 .. i - 1 : j \in DOMAIN log[s]
        BY <3>2, <4>2
      <4>4. \A j \in DOMAIN log[s] : log'[s][j] = log[s][j]
        BY <2>0
      <4>5. \A j \in DOMAIN log'[s] : j > i => log'[s][j].by # log'[s][i].by
        <5> SUFFICES ASSUME NEW j \in DOMAIN log'[s], j > i PROVE log'[s][j].by # log'[s][i].by
          OBVIOUS
        <5>1. CASE s = r /\ j = n
          BY <5>1, <2>0, <2>4, <3>2
        <5>2. CASE j \in DOMAIN log[s] /\ log'[s][j] = log[s][j]
          BY <5>2, <4>1, <3>2
        <5> QED
          BY <5>1, <5>2, <2>5
      <4> QED
        BY <4>1, <4>3, <4>4, <4>5, <3>2
    <3> QED
      BY <3>1, <3>2, <2>5
  <2>7. PhaseMatchesLog'
    <3> SUFFICES ASSUME NEW s \in Runs, NEW i \in DOMAIN log'[s]
                 PROVE /\ at[log'[s][i].by] = s
                       /\ log'[s][i].type \in DoneEvents => phase'[log'[s][i].by] = "closed"
      BY <1>3 DEF PhaseMatchesLog
    <3>1. CASE s = r /\ i = n
      BY <1>3, <2>0, <3>1 DEF DoneEvents, PlainEvents, MarkersTypeOK
    <3>2. CASE i \in DOMAIN log[s] /\ log'[s][i] = log[s][i]
      <4>1. /\ at[log[s][i].by] = s /\ log[s][i].by \in Writers
            /\ log[s][i].type \in DoneEvents => phase[log[s][i].by] = "closed"
        <5>1. log[s][i] \in Events
          BY <3>2 DEF MarkersTypeOK
        <5> QED
          BY <5>1, <3>2 DEF PhaseMatchesLog, Events
      <4>2. phase[log[s][i].by] = "closed" => phase'[log[s][i].by] = "closed"
        BY <1>3, <4>1 DEF MarkersTypeOK
      <4> QED
        BY <4>1, <4>2, <3>2
    <3> QED
      BY <3>1, <3>2, <2>5
  <2>8. OpenedInLog'
    <3> SUFFICES ASSUME NEW v \in Writers, phase'[v] # "idle"
                 PROVE /\ at[v] \in Runs
                       /\ \E j \in DOMAIN log'[at[v]] : log'[at[v]][j] = [type |-> "started", by |-> v]
      BY <1>3 DEF OpenedInLog
    <3>1. CASE phase[v] # "idle"
      <4>1. PICK j \in DOMAIN log[at[v]] : log[at[v]][j] = [type |-> "started", by |-> v]
        BY <3>1 DEF OpenedInLog
      <4>2. at[v] \in Runs
        BY <3>1 DEF OpenedInLog
      <4>3. j \in DOMAIN log'[at[v]] /\ log'[at[v]][j] = log[at[v]][j]
        <5>1. CASE at[v] # r
          BY <5>1, <2>0, <4>1, <4>2
        <5>2. CASE at[v] = r
          <6>1. j \in 1 .. n - 1
            BY <5>2, <2>2, <4>1
          <6>2. j \in 1 .. n
            BY <6>1, <2>2
          <6> QED
            BY <6>1, <6>2, <5>2, <2>0, <2>2
        <5> QED
          BY <5>1, <5>2
      <4> QED
        BY <4>1, <4>2, <4>3
    <3>2. CASE phase[v] = "idle"
      <4>1. v = w /\ type = "started"
        BY <1>3, <3>2 DEF MarkersTypeOK
      <4>2. n \in DOMAIN log'[r]
        BY <2>2
      <4> QED
        BY <4>1, <4>2, <2>0, <2>1
    <3> QED
      BY <3>1, <3>2
  <2> QED
    BY <2>3, <2>6, <2>7, <2>8
<1>4. ASSUME NEW w \in Writers, Open(w) PROVE MarkersInv'
  BY <1>4, <1>3 DEF Open
<1>5. ASSUME NEW w \in Writers, NEW type \in PlainEvents, Write(w, type) PROVE MarkersInv'
  BY <1>5, <1>3 DEF Write
<1>6. ASSUME NEW w \in Writers, NEW type \in DoneEvents, Close(w, type) PROVE MarkersInv'
  BY <1>6, <1>3 DEF Close
<1> QED
  BY <1>1, <1>2, <1>4, <1>5, <1>6 DEF MarkersNext

(* In every log, a run-done marker has the run-started of its writer       *)
(* before it and nothing of that writer after it.                          *)
THEOREM MarkersBracketed == Spec => []Bracketed
<1>1. MarkersInv => Bracketed
  BY DEF MarkersInv
<1> QED
  BY <1>1, MarkersInitInv, MarkersStep, PTL DEF Spec
=============================================================================
