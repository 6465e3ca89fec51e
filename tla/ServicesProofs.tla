---------------------------- MODULE ServicesProofs ----------------------------
(***************************************************************************)
(* Safety of RuntimeMode and of ReportPhotos, for any processes, payments, *)
(* requests and photos, and of the services run together: each of them     *)
(* keeps its own specification, and so all that is proved of it.           *)
(***************************************************************************)
EXTENDS Services, AccessProofs, CrmProofs, TLAPS

-----------------------------------------------------------------------------
(* The interlock of the modes: MembersInMode and LeasesInMode.              *)

\* A renewal that is not yet committed extends a live lease, or one that ran out
\* under it: nobody else can take or release the row it holds.
RenewalsAreKnown == \A t \in Payment : renewing[t] => live[t] \/ outlived[t]

\* LeasesInMode is not inductive alone: a commit makes the lease live again.
RuntimeInv == TypeOK /\ MembersInMode /\ LeasesInMode /\ RenewalsAreKnown

LEMMA InitRuntimeInv == Init => RuntimeInv
  BY FaultAssumption DEF Init, RuntimeInv, TypeOK, MembersInMode, LeasesInMode, RenewalsAreKnown,
     Modes, RunMode

\* A fault is counted and stays within its bound.
LEMMA FaultBound == ASSUME faults \in 0..MaxFaults, Fault PROVE faults' \in 0..MaxFaults
  BY FaultAssumption DEF Fault

\* The steps of a process: only a registration makes a member healthy, and it is
\* made in the mode in force.
LEMMA ProcessSteps ==
  ASSUME RuntimeInv, NEW x \in Process,
         \/ Start(x) \/ Heartbeat(x) \/ HeartbeatFails(x) \/ MemberExpires(x)
         \/ Stop(x) \/ Exit(x) \/ Crash(x)
  PROVE  RuntimeInv'
<1> USE DEF RuntimeInv
<1>1. UNCHANGED <<mode, conf, leaseVars>>
  BY DEF Start, Heartbeat, HeartbeatFails, MemberExpires, Stop, Exit, Crash
<1>2. LeasesInMode' /\ RenewalsAreKnown'
  BY <1>1 DEF LeasesInMode, RenewalsAreKnown, leaseVars
<1>3. TypeOK /\ MembersInMode
  OBVIOUS
<1>4. faults' \in 0..MaxFaults
  BY <1>3, FaultBound DEF TypeOK, Start, Heartbeat, HeartbeatFails, MemberExpires, Stop,
     Exit, Crash
<1>5. TypeOK' /\ MembersInMode'
  <2>1. CASE Start(x)
    BY <2>1, <1>1, <1>3, <1>4 DEF Start, TypeOK, MembersInMode, leaseVars
  <2>2. CASE Heartbeat(x)
    BY <2>2, <1>1, <1>3, <1>4 DEF Heartbeat, HeartbeatEnds, TypeOK, MembersInMode, leaseVars
  <2>3. CASE HeartbeatFails(x)
    BY <2>3, <1>1, <1>3, <1>4 DEF HeartbeatFails, HeartbeatEnds, TypeOK, MembersInMode, leaseVars
  <2>4. CASE MemberExpires(x)
    BY <2>4, <1>1, <1>3, <1>4 DEF MemberExpires, TypeOK, MembersInMode, leaseVars
  <2>5. CASE Stop(x)
    BY <2>5, <1>1, <1>3, <1>4 DEF Stop, TypeOK, MembersInMode, leaseVars
  <2>6. CASE Exit(x)
    BY <2>6, <1>1, <1>3, <1>4 DEF Exit, TypeOK, MembersInMode, leaseVars
  <2>7. CASE Crash(x)
    BY <2>7, <1>1, <1>3, <1>4 DEF Crash, TypeOK, MembersInMode, leaseVars
  <2> QED BY <2>1, <2>2, <2>3, <2>4, <2>5, <2>6, <2>7
<1> QED BY <1>2, <1>5

\* The steps of a lease leave the mode and the members alone; a lease becomes live
\* by a claim in the mode in force or by a renewal that is known.
LEMMA LeaseSteps ==
  ASSUME RuntimeInv, NEW t \in Payment,
         \/ \E x \in Worker : Claim(x, t) \/ BeginRenew(x, t) \/ Finish(x, t)
         \/ EndRenew(t) \/ LeaseExpires(t)
  PROVE  RuntimeInv'
<1> USE DEF RuntimeInv
<1>1. UNCHANGED <<mode, conf, procVars>>
  BY DEF Claim, BeginRenew, Finish, EndRenew, LeaseExpires
<1>2. MembersInMode'
  BY <1>1 DEF MembersInMode, procVars
<1>3. TypeOK /\ LeasesInMode /\ RenewalsAreKnown
  OBVIOUS
<1>4. faults' \in 0..MaxFaults
  BY <1>3, FaultBound DEF TypeOK, Claim, BeginRenew, Finish, EndRenew, LeaseExpires
<1>5. TypeOK'
  BY ZenonT(40), <1>1, <1>3, <1>4 DEF TypeOK, procVars, Process, Claim, BeginRenew, Finish, EndRenew,
     LeaseExpires
<1>6. LeasesInMode' /\ RenewalsAreKnown'
  <2>1. ASSUME NEW x \in Worker, Claim(x, t) PROVE LeasesInMode' /\ RenewalsAreKnown'
    BY <2>1, <1>3 DEF Claim, TypeOK, LeasesInMode, RenewalsAreKnown
  <2>2. ASSUME NEW x \in Worker, BeginRenew(x, t) PROVE LeasesInMode' /\ RenewalsAreKnown'
    BY <2>2, <1>3 DEF BeginRenew, TypeOK, LeasesInMode, RenewalsAreKnown, procVars
  <2>3. ASSUME NEW x \in Worker, Finish(x, t) PROVE LeasesInMode' /\ RenewalsAreKnown'
    BY <2>3, <1>3 DEF Finish, TypeOK, LeasesInMode, RenewalsAreKnown
  <2>4. CASE EndRenew(t)
    BY <2>4, <1>3 DEF EndRenew, TypeOK, LeasesInMode, RenewalsAreKnown
  <2>5. CASE LeaseExpires(t)
    BY <2>5, <1>3 DEF LeaseExpires, TypeOK, LeasesInMode, RenewalsAreKnown
  <2> QED BY <2>1, <2>2, <2>3, <2>4, <2>5
<1> QED BY <1>2, <1>5, <1>6

\* A switch happens with nobody registered and no lease live, so it leaves nobody
\* behind in the old mode.
LEMMA SwitchStep == ASSUME RuntimeInv, NEW m, SetMode(m) PROVE RuntimeInv'
<1>1. TypeOK'
  BY DEF RuntimeInv, SetMode, TypeOK, procVars, leaseVars
<1>2. MembersInMode'
  BY DEF RuntimeInv, SetMode, MembersInMode, procVars
<1>3. LeasesInMode' /\ RenewalsAreKnown'
  BY DEF RuntimeInv, SetMode, Held, LeasesInMode, RenewalsAreKnown, leaseVars
<1> QED BY <1>1, <1>2, <1>3 DEF RuntimeInv

LEMMA StepRuntimeInv == RuntimeInv /\ [Next]_vars => RuntimeInv'
<1> SUFFICES ASSUME RuntimeInv, [Next]_vars PROVE RuntimeInv'
  OBVIOUS
<1>1. CASE Next
  BY <1>1, ProcessSteps, LeaseSteps, SwitchStep DEF Next
<1>2. CASE UNCHANGED vars
  BY <1>2 DEF RuntimeInv, TypeOK, MembersInMode, LeasesInMode, RenewalsAreKnown, vars, procVars,
     leaseVars
<1> QED BY <1>1, <1>2

\* The invariant holds whatever the processes, switches and faults.
THEOREM RuntimeInvariance == Spec => []RuntimeInv
  BY InitRuntimeInv, StepRuntimeInv, PTL DEF Spec

\* Type correctness of the registry, the leases and the mode.
THEOREM RuntimeTypeCorrect == Spec => []TypeOK
<1>1. RuntimeInv => TypeOK
  BY DEF RuntimeInv
<1> QED BY <1>1, RuntimeInvariance, PTL

\* Nobody registered is of another mode (require_mode under the lock of set_mode).
THEOREM RegisteredInMode == Spec => []MembersInMode
<1>1. RuntimeInv => MembersInMode
  BY DEF RuntimeInv
<1> QED BY <1>1, RuntimeInvariance, PTL

\* Nobody executes in another mode, but under a renewal its lease outlived (claim,
\* renew, set_mode).
THEOREM ExecutedInMode == Spec => []LeasesInMode
<1>1. RuntimeInv => LeasesInMode
  BY DEF RuntimeInv
<1> QED BY <1>1, RuntimeInvariance, PTL

-----------------------------------------------------------------------------
(* The photos of a report: the inductive invariant.                         *)

Bringing == {"s3", "techportal", "staging", "recording"}
Photos   == 1..PhotoLimit
Adapters == {"s3", "techportal", "staged"}

\* The operation is of one request; it links to nothing before its photos are recorded.
RowKnows ==
  /\ row.status = "none" => row.by = {} /\ row.n = 0
  /\ row.status # "none" => \E p \in Press : row.by = {p}
  /\ row.status \in {"none", "prepared"} => row.links = {}
  /\ sent => row.status = "completed"

\* Whoever brings photos is the one whose operation it is.
OwnerKnows ==
  \A p \in Press : stage[p] \in Bringing =>
    row.status = "prepared" /\ row.by = {p} /\ row.n = count[p] /\ row.gis = wantsGis[p]

\* A copy that was made is in S3.
CopiesAreStored ==
  \A p \in Press : \A k \in Photos :
    <<"s3", k>> \in made[p] \/ <<"staged", k>> \in made[p] => <<p, k>> \in bucket

RequestKnows ==
  \A p \in Press : /\ stage[p] \in {"idle", "preparing", "begin"} => made[p] = {}
                   /\ stage[p] \notin {"idle", "done"} => count[p] <= PhotoLimit
                   /\ ready[p] <= count[p]

\* How far the adapters have come: the S3 of public links has its photos first, the
\* S3 for the GIS last, and only one of the two.
Copied(p, adapter, n) == \A k \in 1..n : <<adapter, k>> \in made[p]

SavedSoFar ==
  \A p \in Press : stage[p] \in Bringing =>
    /\ storage = "public" => Copied(p, "s3", IF stage[p] = "s3" THEN ready[p] ELSE count[p])
    /\ storage # "public" => \A k \in Photos : <<"s3", k>> \notin made[p]

StagedSoFar ==
  \A p \in Press : stage[p] \in {"staging", "recording"} /\ wantsGis[p] /\ storage # "public"
    => Copied(p, "staged", IF stage[p] = "staging" THEN ready[p] ELSE count[p])

PhInv ==
  /\ PhotosTypeOK /\ RowKnows /\ OwnerKnows /\ CopiesAreStored /\ RequestKnows
  /\ SavedSoFar /\ StagedSoFar /\ PhotosReachGis

LEMMA InitPhInv == PhotosInit => PhInv
<1> SUFFICES ASSUME PhotosInit PROVE PhInv
  OBVIOUS
<1>1. PhotosTypeOK
  <2>1. row \in [status : {"none", "prepared", "marking", "completed", "completion_failed"},
                gis : BOOLEAN, n : 0..PhotoLimit, by : SUBSET Press,
                copies : SUBSET ({"s3", "techportal", "staged"} \X (1..PhotoLimit)),
                links : SUBSET (1..PhotoLimit)]
    BY PhotosAssumption DEF PhotosInit
  <2>2. count \in [Press -> 0..PhotoLimit + 1] /\ ready \in [Press -> 0..PhotoLimit + 1]
    BY PhotosAssumption DEF PhotosInit
  <2>3. wantsGis \in [Press -> BOOLEAN] /\ stage \in [Press -> Stages]
    BY DEF PhotosInit, Stages
  <2>4. made \in [Press -> SUBSET ({"s3", "techportal", "staged"} \X (1..PhotoLimit))]
    BY DEF PhotosInit
  <2>5. broken \in 0..MaxBroken
    BY PhotosAssumption DEF PhotosInit
  <2> QED BY <2>1, <2>2, <2>3, <2>4, <2>5 DEF PhotosInit, PhotosTypeOK
<1>2. RowKnows /\ OwnerKnows /\ CopiesAreStored /\ RequestKnows
  BY DEF PhotosInit, RowKnows, OwnerKnows, CopiesAreStored, RequestKnows, Bringing
<1>3. SavedSoFar /\ StagedSoFar /\ PhotosReachGis
  BY DEF PhotosInit, SavedSoFar, StagedSoFar, PhotosReachGis, Bringing
<1> QED BY <1>1, <1>2, <1>3 DEF PhInv

\* Before the operation is written a request changes nothing but itself.
LEMMA SubmitSteps ==
  ASSUME PhInv, NEW p \in Press,
         Prepare(p) \/ \E n \in 0..PhotoLimit + 1, gis \in BOOLEAN : Submit(p, n, gis)
  PROVE  PhInv'
<1> USE PhotosAssumption DEF PhInv
<1>1. UNCHANGED <<storage, attaching, row, bucket, files, made, sent, report, broken>>
  BY DEF Prepare, Submit, deployVars, gisVars
<1>2. /\ stage \in [Press -> Stages] /\ count \in [Press -> 0..PhotoLimit + 1]
      /\ wantsGis \in [Press -> BOOLEAN] /\ ready \in [Press -> 0..PhotoLimit + 1]
  BY DEF PhotosTypeOK
<1>3. PICK s \in Stages, r \in 0..PhotoLimit + 1, n \in 0..PhotoLimit + 1, gis \in BOOLEAN :
        /\ stage' = [stage EXCEPT ![p] = s] /\ ready' = [ready EXCEPT ![p] = r]
        /\ count' = [count EXCEPT ![p] = n] /\ wantsGis' = [wantsGis EXCEPT ![p] = gis]
        /\ s \in {"preparing", "begin", "done"} /\ r <= n
        /\ s # "done" => n <= PhotoLimit /\ made[p] = {}
  <2>1. ASSUME NEW n \in 0..PhotoLimit + 1, NEW gis \in BOOLEAN, Submit(p, n, gis)
        PROVE  \E s \in {"preparing", "done"} :
                 /\ stage' = [stage EXCEPT ![p] = s] /\ ready' = [ready EXCEPT ![p] = 0]
                 /\ count' = [count EXCEPT ![p] = n] /\ wantsGis' = [wantsGis EXCEPT ![p] = gis]
                 /\ s # "done" => n <= PhotoLimit /\ made[p] = {}
    <3>1. n \in Nat /\ (stage[p] = "idle" => made[p] = {})
      BY DEF RequestKnows
    <3>2. CASE Refused(n, gis)
      BY <2>1, <3>2 DEF Submit, To
    <3>3. CASE ~Refused(n, gis)
      <4>1. n <= PhotoLimit
        BY <3>1, <3>3 DEF Refused
      <4> QED BY <2>1, <3>1, <3>3, <4>1 DEF Submit, To
    <3> QED BY <3>2, <3>3
  <2>2. ASSUME Prepare(p)
        PROVE  \E s \in {"preparing", "begin", "done"}, r \in 0..PhotoLimit + 1 :
                 /\ stage' = [stage EXCEPT ![p] = s] /\ ready' = [ready EXCEPT ![p] = r]
                 /\ r <= count[p] /\ UNCHANGED <<count, wantsGis>>
                 /\ s # "done" => count[p] <= PhotoLimit /\ made[p] = {}
    <3>1. stage[p] = "preparing" /\ count[p] \in 0..PhotoLimit /\ ready[p] \in Nat
          /\ ready[p] <= count[p] /\ made[p] = {}
      BY <1>2, <2>2 DEF Prepare, RequestKnows
    <3>2. CASE ready[p] = count[p]
      BY <2>2, <3>1, <3>2 DEF Prepare, To
    <3>3. CASE ready[p] # count[p]
      <4>1. ready[p] + 1 \in 0..PhotoLimit + 1 /\ ready[p] + 1 <= count[p] /\ 0 <= count[p]
        BY <3>1, <3>3
      <4>2. CASE ready' = [ready EXCEPT ![p] = @ + 1] /\ UNCHANGED stage
        <5>1. stage' = [stage EXCEPT ![p] = "preparing"]
          BY <1>2, <3>1, <4>2
        <5>2. ready' = [ready EXCEPT ![p] = ready[p] + 1]
          BY <4>2
        <5>3. UNCHANGED <<count, wantsGis>> /\ count[p] <= PhotoLimit
          BY <2>2, <3>1 DEF Prepare
        <5> QED BY <3>1, <4>1, <5>1, <5>2, <5>3
      <4>3. CASE To(p, "done")
        <5>1. UNCHANGED <<count, wantsGis>>
          BY <2>2 DEF Prepare
        <5>2. stage' = [stage EXCEPT ![p] = "done"] /\ ready' = [ready EXCEPT ![p] = 0]
          BY <4>3 DEF To
        <5>3. 0 \in 0..PhotoLimit + 1
          OBVIOUS
        <5> QED BY <4>1, <5>1, <5>2, <5>3
      <4>4. (ready' = [ready EXCEPT ![p] = @ + 1] /\ UNCHANGED stage) \/ To(p, "done")
        BY <2>2, <3>3 DEF Prepare
      <4> QED BY <4>2, <4>3, <4>4
    <3> QED BY <3>2, <3>3
  <2>3. CASE Prepare(p)
    <3>1. count' = [count EXCEPT ![p] = count[p]] /\ wantsGis' = [wantsGis EXCEPT ![p] = wantsGis[p]]
      BY <1>2, <2>2, <2>3
    <3>2. PICK s \in {"preparing", "begin", "done"}, r \in 0..PhotoLimit + 1 :
            /\ stage' = [stage EXCEPT ![p] = s] /\ ready' = [ready EXCEPT ![p] = r]
            /\ r <= count[p] /\ (s # "done" => count[p] <= PhotoLimit /\ made[p] = {})
      BY <2>2, <2>3
    <3>3. count[p] \in 0..PhotoLimit + 1 /\ wantsGis[p] \in BOOLEAN /\ s \in Stages
      BY <1>2 DEF Stages
    <3> QED BY <3>1, <3>2, <3>3
  <2> QED BY <2>1, <2>3 DEF Stages
<1>4. PhotosTypeOK'
  BY <1>1, <1>2, <1>3 DEF PhotosTypeOK
<1>5. RowKnows' /\ CopiesAreStored' /\ PhotosReachGis'
  BY <1>1 DEF RowKnows, CopiesAreStored, PhotosReachGis, Keyed
<1>6. \A q \in Press : q # p => /\ stage'[q] = stage[q] /\ ready'[q] = ready[q]
                                /\ count'[q] = count[q] /\ wantsGis'[q] = wantsGis[q]
  BY <1>2, <1>3
<1>7. stage'[p] \in {"preparing", "begin", "done"} /\ ready'[p] <= count'[p]
      /\ (stage'[p] # "done" => count'[p] <= PhotoLimit /\ made'[p] = {})
  BY <1>1, <1>2, <1>3
<1>8. OwnerKnows' /\ RequestKnows'
  BY <1>1, <1>6, <1>7 DEF OwnerKnows, RequestKnows, Bringing
<1>9. SavedSoFar' /\ StagedSoFar'
  BY <1>1, <1>6, <1>7 DEF SavedSoFar, StagedSoFar, Copied, Bringing
<1> QED BY <1>4, <1>5, <1>8, <1>9

\* The first request that begins the operation owns it.
LEMMA BeginStep == ASSUME PhInv, NEW p \in Press, BeginReport(p) PROVE PhInv'
<1> USE PhotosAssumption DEF PhInv
<1>1. UNCHANGED <<storage, attaching, bucket, files, made, sent, report, broken, count, wantsGis>>
  BY DEF BeginReport, deployVars, gisVars
<1>2. /\ stage \in [Press -> Stages] /\ count \in [Press -> 0..PhotoLimit + 1]
      /\ wantsGis \in [Press -> BOOLEAN] /\ ready \in [Press -> 0..PhotoLimit + 1]
  BY DEF PhotosTypeOK
<1>3. stage[p] = "begin" /\ made[p] = {} /\ count[p] \in 0..PhotoLimit /\ wantsGis[p] \in BOOLEAN
  BY <1>2 DEF BeginReport, RequestKnows
<1>4. PICK s \in {"done", "s3"} :
        /\ To(p, s)
        /\ s = "done" => UNCHANGED row
        /\ s = "s3" => row.status = "none"
                      /\ row' = [row EXCEPT !.status = "prepared", !.gis = wantsGis[p],
                                           !.n = count[p], !.by = {p}]
  BY DEF BeginReport
<1>5. /\ stage' = [stage EXCEPT ![p] = s] /\ ready' = [ready EXCEPT ![p] = 0]
      /\ \A q \in Press : q # p => stage'[q] = stage[q] /\ ready'[q] = ready[q]
      /\ stage'[p] = s /\ ready'[p] = 0
  BY <1>2, <1>4 DEF To
<1>6. RequestKnows' /\ CopiesAreStored' /\ SavedSoFar' /\ StagedSoFar'
  <2>1. RequestKnows'
    BY <1>1, <1>3, <1>4, <1>5 DEF RequestKnows
  <2>2. CopiesAreStored'
    BY <1>1 DEF CopiesAreStored
  <2>3. SavedSoFar' /\ StagedSoFar'
    BY <1>1, <1>3, <1>4, <1>5 DEF SavedSoFar, StagedSoFar, Copied, Bringing
  <2> QED BY <2>1, <2>2, <2>3
<1>7. CASE s = "done"
  <2>1. PhotosTypeOK'
    BY <1>1, <1>2, <1>4, <1>5, <1>7 DEF PhotosTypeOK, Stages
  <2>2. RowKnows' /\ OwnerKnows' /\ PhotosReachGis'
    BY <1>1, <1>4, <1>5, <1>7 DEF RowKnows, OwnerKnows, PhotosReachGis, Keyed, Bringing
  <2> QED BY <1>6, <2>1, <2>2
<1>8. CASE s = "s3"
  <2>1. /\ row.status = "none" /\ row'.status = "prepared" /\ row'.gis = wantsGis[p]
        /\ row'.n = count[p] /\ row'.by = {p} /\ row'.links = row.links
    BY <1>4, <1>8 DEF PhotosTypeOK
  <2>2. row' \in [status : {"none", "prepared", "marking", "completed", "completion_failed"},
                  gis : BOOLEAN, n : 0..PhotoLimit, by : SUBSET Press,
                  copies : SUBSET ({"s3", "techportal", "staged"} \X (1..PhotoLimit)),
                  links : SUBSET (1..PhotoLimit)]
    <3>1. row' = [status |-> "prepared", gis |-> wantsGis[p], n |-> count[p], by |-> {p},
                  copies |-> row.copies, links |-> row.links]
      BY <1>4, <1>8 DEF PhotosTypeOK
    <3>2. row.copies \subseteq {"s3", "techportal", "staged"} \X (1..PhotoLimit)
          /\ row.links \subseteq 1..PhotoLimit
      BY DEF PhotosTypeOK
    <3> QED BY <1>3, <3>1, <3>2
  <2>3. PhotosTypeOK'
    BY <1>1, <1>2, <1>5, <1>8, <2>2 DEF PhotosTypeOK, Stages
  <2>4. \A q \in Press : stage[q] \notin Bringing
    BY <2>1 DEF OwnerKnows
  <2>5. RowKnows' /\ OwnerKnows' /\ PhotosReachGis'
    BY <1>1, <1>5, <2>1, <2>4 DEF RowKnows, OwnerKnows, PhotosReachGis
  <2> QED BY <1>6, <2>3, <2>5
<1> QED BY <1>4, <1>7, <1>8

\* The current adapter stores a photo, or has stored them all.
LEMMA StoredFacts ==
  ASSUME PhInv, NEW p \in Press, NEW adapter \in Adapters, NEW next \in Stages,
         count[p] <= PhotoLimit, Stored(p, adapter, next)
  PROVE  \/ /\ ready[p] = count[p] /\ To(p, next) /\ UNCHANGED <<bucket, files, made>>
         \/ \E k \in Photos :
              /\ k = ready[p] + 1 /\ k <= count[p]
              /\ ready' = [ready EXCEPT ![p] = k] /\ UNCHANGED stage
              /\ made' = [made EXCEPT ![p] = @ \cup {<<adapter, k>>}]
              /\ bucket' = IF adapter = "techportal" THEN bucket ELSE bucket \cup {<<p, k>>}
              /\ files' = IF adapter = "techportal" THEN files \cup {<<p, k>>} ELSE files
<1>1. ready[p] \in Nat /\ count[p] \in Nat /\ ready[p] <= count[p] /\ PhotoLimit \in Nat
  BY PhotosAssumption DEF PhInv, PhotosTypeOK, RequestKnows
<1>2. CASE ready[p] = count[p]
  BY <1>2 DEF Stored
<1>3. CASE ready[p] # count[p]
  <2>1. ready[p] + 1 \in Photos /\ ready[p] + 1 <= count[p]
    BY <1>1, <1>3 DEF Photos
  <2> QED BY <1>3, <2>1 DEF Stored
<1> QED BY <1>2, <1>3

\* A request that has nothing left for an adapter goes on to the next.
LEMMA NextAdapter ==
  ASSUME PhInv, NEW p \in Press, NEW next \in {"techportal", "staging", "recording"},
         stage[p] \in Bringing, To(p, next),
         UNCHANGED <<deployVars, row, bucket, files, count, wantsGis, made, gisVars, broken>>,
         \/ stage[p] = "s3" /\ next = "techportal"
            /\ (storage = "public" => ready[p] = count[p])
         \/ stage[p] = "techportal" /\ next = "staging"
         \/ stage[p] = "staging" /\ next = "recording"
            /\ (wantsGis[p] /\ storage # "public" => ready[p] = count[p])
  PROVE  PhInv'
<1> USE PhotosAssumption DEF PhInv
<1>1. UNCHANGED <<storage, attaching, row, bucket, files, count, wantsGis, made, sent, report, broken>>
  BY DEF deployVars, gisVars
<1>2. /\ stage \in [Press -> Stages] /\ ready \in [Press -> 0..PhotoLimit + 1]
      /\ count \in [Press -> 0..PhotoLimit + 1]
  BY DEF PhotosTypeOK
<1>3. /\ stage' = [stage EXCEPT ![p] = next] /\ ready' = [ready EXCEPT ![p] = 0]
      /\ \A q \in Press : q # p => stage'[q] = stage[q] /\ ready'[q] = ready[q]
      /\ stage'[p] = next /\ ready'[p] = 0
  BY <1>2 DEF To
<1>4. PhotosTypeOK'
  BY <1>1, <1>2, <1>3 DEF PhotosTypeOK, Stages
<1>5. RowKnows' /\ CopiesAreStored' /\ PhotosReachGis'
  BY <1>1 DEF RowKnows, CopiesAreStored, PhotosReachGis, Keyed
<1>6. OwnerKnows'
  BY <1>1, <1>3 DEF OwnerKnows, Bringing
<1>7. RequestKnows'
  BY <1>1, <1>2, <1>3 DEF RequestKnows, Bringing
<1>8. SavedSoFar'
  BY <1>1, <1>3 DEF SavedSoFar, Copied, Bringing
<1>9. StagedSoFar'
  <2> SUFFICES ASSUME NEW q \in Press, stage'[q] \in {"staging", "recording"}, wantsGis[q],
                      storage # "public"
               PROVE  Copied(q, "staged", IF stage[q] = "staging" THEN ready[q] ELSE count[q])'
    BY <1>1 DEF StagedSoFar
  <2>1. CASE q # p
    BY <1>1, <1>3, <2>1 DEF StagedSoFar, Copied
  <2>2. CASE q = p /\ next = "staging"
    BY <1>3, <2>2 DEF Copied
  <2>3. CASE q = p /\ next = "recording"
    <3>1. stage[p] = "staging" /\ ready[p] = count[p]
      BY <2>3
    <3>2. Copied(p, "staged", count[p])
      BY <2>3, <3>1 DEF StagedSoFar
    <3> QED BY <1>1, <1>3, <2>3, <3>2 DEF Copied
  <2> QED BY <1>3, <2>1, <2>2, <2>3
<1> QED BY <1>4, <1>5, <1>6, <1>7, <1>8, <1>9

\* A copy more: only the operation of the request that makes it is under way.
LEMMA CopyMade ==
  ASSUME PhInv, NEW p \in Press, NEW adapter \in Adapters, NEW k \in Photos,
         stage[p] \in Bringing, k = ready[p] + 1, k <= count[p],
         ready' = [ready EXCEPT ![p] = k],
         made' = [made EXCEPT ![p] = @ \cup {<<adapter, k>>}],
         bucket' = IF adapter = "techportal" THEN bucket ELSE bucket \cup {<<p, k>>},
         files' = IF adapter = "techportal" THEN files \cup {<<p, k>>} ELSE files,
         UNCHANGED <<deployVars, row, stage, count, wantsGis, gisVars, broken>>,
         stage[p] = (IF adapter = "staged" THEN "staging" ELSE adapter),
         adapter = "s3" => storage = "public"
  PROVE  PhInv'
<1> USE PhotosAssumption DEF PhInv
<1>1. UNCHANGED <<storage, attaching, row, stage, count, wantsGis, sent, report, broken>>
  BY DEF deployVars, gisVars
<1>2. /\ ready \in [Press -> 0..PhotoLimit + 1] /\ count \in [Press -> 0..PhotoLimit + 1]
      /\ made \in [Press -> SUBSET ({"s3", "techportal", "staged"} \X (1..PhotoLimit))]
      /\ bucket \subseteq Press \X (1..PhotoLimit) /\ files \subseteq Press \X (1..PhotoLimit)
  BY DEF PhotosTypeOK
<1>3. /\ \A q \in Press : q # p => ready'[q] = ready[q] /\ made'[q] = made[q]
      /\ ready'[p] = k /\ made'[p] = made[p] \cup {<<adapter, k>>} /\ k \in 1..PhotoLimit
      /\ bucket \subseteq bucket' /\ (adapter # "techportal" => <<p, k>> \in bucket')
  BY <1>2 DEF Photos
<1>4. PhotosTypeOK'
  <2>1. ready' \in [Press -> 0..PhotoLimit + 1]
    BY <1>2, <1>3
  <2>2. made' \in [Press -> SUBSET ({"s3", "techportal", "staged"} \X (1..PhotoLimit))]
    BY <1>2, <1>3 DEF Adapters
  <2>3. bucket' \subseteq Press \X (1..PhotoLimit) /\ files' \subseteq Press \X (1..PhotoLimit)
    BY <1>2, <1>3
  <2> QED BY <1>1, <2>1, <2>2, <2>3 DEF PhotosTypeOK
<1>5. RowKnows' /\ OwnerKnows'
  BY <1>1 DEF RowKnows, OwnerKnows
<1>6. CopiesAreStored'
  <2> SUFFICES ASSUME NEW q \in Press, NEW n \in Photos,
                      <<"s3", n>> \in made'[q] \/ <<"staged", n>> \in made'[q]
               PROVE  <<q, n>> \in bucket'
    BY DEF CopiesAreStored
  <2>1. CASE <<"s3", n>> \in made[q] \/ <<"staged", n>> \in made[q]
    BY <1>3, <2>1 DEF CopiesAreStored
  <2>2. CASE <<"s3", n>> \notin made[q] /\ <<"staged", n>> \notin made[q]
    BY <1>3, <2>2
  <2> QED BY <2>1, <2>2
<1>7. RequestKnows'
  BY <1>1, <1>3 DEF RequestKnows, Bringing
<1>8. SavedSoFar'
  <2> SUFFICES ASSUME NEW q \in Press, stage[q] \in Bringing
               PROVE  /\ storage = "public" => Copied(q, "s3", IF stage[q] = "s3" THEN ready[q] ELSE count[q])'
                      /\ storage # "public" => \A n \in Photos : <<"s3", n>> \notin made'[q]
    BY <1>1 DEF SavedSoFar
  <2>1. CASE q # p
    BY <1>1, <1>3, <2>1 DEF SavedSoFar, Copied
  <2>2. CASE q = p
    <3>1. storage # "public" => \A n \in Photos : <<"s3", n>> \notin made'[p]
      BY <1>3, <2>2 DEF SavedSoFar
    <3>2. ASSUME storage = "public", stage[p] = "s3" PROVE Copied(p, "s3", ready[p])'
      <4>1. \A n \in 1..ready[p] : <<"s3", n>> \in made[p]
        BY <2>2, <3>2 DEF SavedSoFar, Copied
      <4>2. \A n \in 1..k : n = k \/ n \in 1..ready[p]
        BY <1>2
      <4>3. adapter = "s3"
        BY <3>2 DEF Adapters
      <4> QED BY <1>3, <4>1, <4>2, <4>3 DEF Copied
    <3>3. ASSUME storage = "public", stage[p] # "s3" PROVE Copied(p, "s3", count[p])'
      BY <1>1, <1>3, <2>2, <3>3 DEF SavedSoFar, Copied
    <3> QED BY <1>1, <2>2, <3>1, <3>2, <3>3
  <2> QED BY <2>1, <2>2
<1>9. StagedSoFar'
  <2> SUFFICES ASSUME NEW q \in Press, stage[q] \in {"staging", "recording"}, wantsGis[q],
                      storage # "public"
               PROVE  Copied(q, "staged", IF stage[q] = "staging" THEN ready[q] ELSE count[q])'
    BY <1>1 DEF StagedSoFar
  <2>1. CASE q # p
    BY <1>1, <1>3, <2>1 DEF StagedSoFar, Copied
  <2>2. CASE q = p
    <3>1. stage[p] = "staging" /\ adapter = "staged"
      BY <2>2 DEF Adapters
    <3>2. \A n \in 1..ready[p] : <<"staged", n>> \in made[p]
      BY <2>2, <3>1 DEF StagedSoFar, Copied
    <3>3. \A n \in 1..k : n = k \/ n \in 1..ready[p]
      BY <1>2
    <3> QED BY <1>1, <1>3, <2>2, <3>1, <3>2, <3>3 DEF Copied
  <2> QED BY <2>1, <2>2
<1>10. PhotosReachGis'
  <2>1. row.status = "prepared"
    BY DEF OwnerKnows
  <2> QED BY <1>1, <2>1 DEF PhotosReachGis
<1> QED BY <1>4, <1>5, <1>6, <1>7, <1>8, <1>9, <1>10

\* The photos of a request that is under way are within the limit.
LEMMA SavingSteps ==
  ASSUME PhInv, NEW p \in Press, SavePhoto(p) \/ StagePhoto(p)
  PROVE  PhInv'
<1>1. /\ stage[p] \in {"s3", "techportal", "staging"} /\ stage[p] \in Bringing
      /\ count[p] <= PhotoLimit
      /\ UNCHANGED <<deployVars, row, count, wantsGis, gisVars, broken>>
  BY DEF PhInv, RequestKnows, Bringing, SavePhoto, StagePhoto
<1>2. PICK adapter \in Adapters, next \in {"techportal", "staging", "recording"} :
        /\ stage[p] = (IF adapter = "staged" THEN "staging" ELSE adapter)
        /\ \/ adapter = "s3" /\ next = "techportal"
           \/ adapter = "techportal" /\ next = "staging"
           \/ adapter = "staged" /\ next = "recording"
        /\ \/ Stored(p, adapter, next) /\ (adapter = "s3" => storage = "public")
           \/ /\ To(p, next) /\ UNCHANGED <<bucket, files, made>>
              /\ adapter = "s3" => storage # "public"
              /\ adapter = "staged" => ~(wantsGis[p] /\ storage # "public")
  <2>1. CASE SavePhoto(p) /\ stage[p] = "s3"
    BY <2>1 DEF SavePhoto, Enabled, Adapters
  <2>2. CASE SavePhoto(p) /\ stage[p] = "techportal"
    BY <2>2 DEF SavePhoto, Enabled, Adapters
  <2>3. CASE StagePhoto(p)
    BY <2>3 DEF StagePhoto, Enabled, Adapters
  <2> QED BY <2>1, <2>2, <2>3 DEF SavePhoto
<1>3. CASE Stored(p, adapter, next) /\ (adapter = "s3" => storage = "public")
  <2>1. next \in Stages
    BY DEF Stages
  <2>2. CASE ready[p] = count[p] /\ To(p, next) /\ UNCHANGED <<bucket, files, made>>
    BY <1>1, <1>2, <2>2, NextAdapter
  <2>3. CASE ~(ready[p] = count[p] /\ To(p, next) /\ UNCHANGED <<bucket, files, made>>)
    <3>1. PICK k \in Photos :
            /\ k = ready[p] + 1 /\ k <= count[p]
            /\ ready' = [ready EXCEPT ![p] = k] /\ UNCHANGED stage
            /\ made' = [made EXCEPT ![p] = @ \cup {<<adapter, k>>}]
            /\ bucket' = IF adapter = "techportal" THEN bucket ELSE bucket \cup {<<p, k>>}
            /\ files' = IF adapter = "techportal" THEN files \cup {<<p, k>>} ELSE files
      BY <1>1, <1>3, <2>1, <2>3, StoredFacts
    <3> QED BY <1>1, <1>2, <1>3, <3>1, CopyMade
  <2> QED BY <2>2, <2>3
<1>4. CASE ~(Stored(p, adapter, next) /\ (adapter = "s3" => storage = "public"))
  BY <1>1, <1>2, <1>4, NextAdapter
<1> QED BY <1>3, <1>4

\* A copy that fails ends the attempt; what S3 has, it keeps.
LEMMA SaveFailsStep == ASSUME PhInv, NEW p \in Press, SaveFails(p) PROVE PhInv'
<1> USE PhotosAssumption DEF PhInv
<1>1. UNCHANGED <<storage, attaching, count, wantsGis, made, sent, report, broken>>
  BY DEF SaveFails, deployVars, gisVars
<1>2. /\ stage \in [Press -> Stages] /\ ready \in [Press -> 0..PhotoLimit + 1]
      /\ count \in [Press -> 0..PhotoLimit + 1]
      /\ bucket \subseteq Press \X (1..PhotoLimit) /\ files \subseteq Press \X (1..PhotoLimit)
  BY DEF PhotosTypeOK
<1>3. /\ stage[p] \in Bringing /\ ready[p] < count[p] /\ count[p] <= PhotoLimit
      /\ row.status = "prepared"
  BY DEF SaveFails, Storing, Bringing, RequestKnows, OwnerKnows
<1>4. ready[p] + 1 \in 1..PhotoLimit
  BY <1>2, <1>3
<1>5. /\ stage' = [stage EXCEPT ![p] = "done"] /\ ready' = [ready EXCEPT ![p] = 0]
      /\ \A q \in Press : q # p => stage'[q] = stage[q] /\ ready'[q] = ready[q]
      /\ stage'[p] = "done" /\ ready'[p] = 0
  BY <1>2 DEF SaveFails, To
<1>6. /\ bucket' \in {bucket, bucket \cup {<<p, ready[p] + 1>>}}
      /\ files' \in {files, files \cup {<<p, ready[p] + 1>>}}
  BY DEF SaveFails, PutFails, UploadFails
<1>7. /\ row' = [row EXCEPT !.status = "completion_failed"]
      /\ row'.status = "completion_failed" /\ row'.by = row.by
  BY DEF SaveFails, PhotosTypeOK
<1>8. PhotosTypeOK'
  <2>1. bucket' \subseteq Press \X (1..PhotoLimit) /\ files' \subseteq Press \X (1..PhotoLimit)
    BY <1>2, <1>4, <1>6
  <2>2. stage' \in [Press -> Stages] /\ ready' \in [Press -> 0..PhotoLimit + 1]
    BY <1>2, <1>5 DEF Stages
  <2> QED BY <1>1, <1>7, <2>1, <2>2 DEF PhotosTypeOK
<1>9. RowKnows' /\ PhotosReachGis'
  BY <1>1, <1>3, <1>7 DEF RowKnows, PhotosReachGis
<1>10. OwnerKnows'
  <2>1. \A q \in Press : stage[q] \in Bringing => q = p
    BY <1>3 DEF OwnerKnows
  <2> QED BY <1>5, <2>1 DEF OwnerKnows, Bringing
<1>11. CopiesAreStored' /\ RequestKnows'
  <2>1. CopiesAreStored'
    BY <1>1, <1>6 DEF CopiesAreStored
  <2>2. RequestKnows'
    BY <1>1, <1>2, <1>5 DEF RequestKnows
  <2> QED BY <2>1, <2>2
<1>12. SavedSoFar' /\ StagedSoFar'
  BY <1>1, <1>5 DEF SavedSoFar, StagedSoFar, Copied, Bringing
<1> QED BY <1>8, <1>9, <1>10, <1>11, <1>12

\* The row names the copies of its photos, which are all in S3 if the GIS wants them.
LEMMA RecordStep ==
  ASSUME PhInv, NEW p \in Press, RecordPhotos(p)
  PROVE  /\ PhInv'
         /\ row'.links # row.links => storage = "public" /\ row'.links = 1..row'.n
<1> USE PhotosAssumption DEF PhInv
<1>1. /\ UNCHANGED <<storage, attaching, bucket, files, count, wantsGis, made, sent, report, broken>>
      /\ stage[p] = "recording"
  BY DEF RecordPhotos, deployVars, gisVars
<1>2. /\ stage \in [Press -> Stages] /\ ready \in [Press -> 0..PhotoLimit + 1]
      /\ count[p] \in 0..PhotoLimit
      /\ made[p] \subseteq {"s3", "techportal", "staged"} \X (1..PhotoLimit)
  BY <1>1 DEF PhotosTypeOK, RequestKnows
<1>3. /\ row.status = "prepared" /\ row.by = {p} /\ row.n = count[p] /\ row.gis = wantsGis[p]
      /\ row.links = {} /\ ~sent
  BY <1>1 DEF OwnerKnows, RowKnows, Bringing
<1>4. /\ stage' = [stage EXCEPT ![p] = "done"] /\ ready' = [ready EXCEPT ![p] = 0]
      /\ \A q \in Press : q # p => stage'[q] = stage[q] /\ ready'[q] = ready[q]
      /\ stage'[p] = "done" /\ ready'[p] = 0
  BY <1>2 DEF RecordPhotos, To
<1>5. PICK links \in SUBSET (1..PhotoLimit) :
        /\ links = {k \in 1..count[p] : <<"s3", k>> \in made[p]}
        /\ row' = [row EXCEPT !.status = "marking", !.copies = made[p], !.links = links]
  BY <1>2 DEF RecordPhotos
<1>6. /\ row'.status = "marking" /\ row'.copies = made[p] /\ row'.links = links
      /\ row'.by = {p} /\ row'.n = count[p] /\ row'.gis = wantsGis[p]
  BY <1>3, <1>5 DEF PhotosTypeOK
<1>7. PhotosTypeOK'
  <2>1. row' \in [status : {"none", "prepared", "marking", "completed", "completion_failed"},
                  gis : BOOLEAN, n : 0..PhotoLimit, by : SUBSET Press,
                  copies : SUBSET ({"s3", "techportal", "staged"} \X (1..PhotoLimit)),
                  links : SUBSET (1..PhotoLimit)]
    BY <1>2, <1>5 DEF PhotosTypeOK
  <2> QED BY <1>1, <1>4, <2>1 DEF PhotosTypeOK, Stages
<1>8. RowKnows' /\ CopiesAreStored'
  BY <1>1, <1>3, <1>6 DEF RowKnows, CopiesAreStored
<1>9. OwnerKnows'
  <2>1. \A q \in Press : stage[q] \in Bringing => q = p
    BY <1>3 DEF OwnerKnows
  <2> QED BY <1>4, <2>1 DEF OwnerKnows, Bringing
<1>10. RequestKnows' /\ SavedSoFar' /\ StagedSoFar'
  <2>1. RequestKnows'
    BY <1>1, <1>2, <1>4 DEF RequestKnows
  <2>2. SavedSoFar' /\ StagedSoFar'
    BY <1>1, <1>4 DEF SavedSoFar, StagedSoFar, Copied, Bringing
  <2> QED BY <2>1, <2>2
<1>11. storage = "public" => \A k \in 1..count[p] : <<"s3", k>> \in made[p]
  BY <1>1 DEF SavedSoFar, Copied, Bringing
<1>12. wantsGis[p] => \A k \in 1..count[p] : <<"s3", k>> \in made[p] \/ <<"staged", k>> \in made[p]
  BY <1>1, <1>11 DEF StagedSoFar, Copied
<1>13. PhotosReachGis'
  <2>1. ASSUME wantsGis[p], NEW k \in 1..count[p]
        PROVE  /\ <<p, k>> \in bucket
               /\ \E a \in {"s3", "staged"} : <<a, k>> \in made[p]
    <3>1. <<"s3", k>> \in made[p] \/ <<"staged", k>> \in made[p]
      BY <1>12, <2>1
    <3>2. k \in Photos
      BY <1>2 DEF Photos
    <3> QED BY <3>1, <3>2 DEF CopiesAreStored
  <2>2. wantsGis[p] => Keyed' = 1..row'.n
    BY <1>6, <2>1 DEF Keyed
  <2> QED BY <1>1, <1>3, <1>6, <2>1, <2>2 DEF PhotosReachGis
<1>14. row'.links # row.links => storage = "public" /\ row'.links = 1..row'.n
  <2>1. CASE storage = "public"
    <3>1. links = 1..count[p]
      BY <1>5, <1>11, <2>1
    <3> QED BY <1>6, <2>1, <3>1
  <2>2. CASE storage # "public"
    <3>1. \A k \in 1..PhotoLimit : <<"s3", k>> \notin made[p]
      BY <1>1, <2>2 DEF SavedSoFar, Bringing, Photos
    <3>2. links = {}
      BY <1>2, <1>5, <3>1
    <3> QED BY <1>3, <1>6, <3>2
  <2> QED BY <2>1, <2>2
<1> QED BY <1>7, <1>8, <1>9, <1>10, <1>13, <1>14

\* Nobody brings photos any more once the ticket may be marked.
LEMMA MarkStep == ASSUME PhInv, MarkTicket PROVE PhInv'
<1> USE DEF PhInv
<1>1. UNCHANGED <<storage, attaching, bucket, files, stage, count, wantsGis, ready, made, sent,
                  report, broken>>
  BY DEF MarkTicket, deployVars, pressVars, gisVars
<1>2. PICK s \in {"completed", "completion_failed"} : row' = [row EXCEPT !.status = s]
  BY DEF MarkTicket
<1>3. /\ row.status = "marking" /\ row'.status = s /\ row'.gis = row.gis /\ row'.n = row.n
      /\ row'.by = row.by /\ row'.copies = row.copies /\ row'.links = row.links
  BY <1>2 DEF MarkTicket, PhotosTypeOK
<1>4. PhotosTypeOK'
  BY <1>1, <1>2 DEF PhotosTypeOK
<1>5. RowKnows' /\ OwnerKnows' /\ CopiesAreStored' /\ RequestKnows'
  BY <1>1, <1>3 DEF RowKnows, OwnerKnows, CopiesAreStored, RequestKnows
<1>6. SavedSoFar' /\ StagedSoFar'
  BY <1>1 DEF SavedSoFar, StagedSoFar, Copied
<1>7. PhotosReachGis'
  <2>1. Keyed' = Keyed
    BY <1>3 DEF Keyed
  <2> QED BY <1>1, <1>3, <2>1 DEF PhotosReachGis
<1> QED BY <1>4, <1>5, <1>6, <1>7

\* The report is of the photos that are keyed, and S3 has these.
LEMMA SendStep == ASSUME PhInv, SendReport PROVE PhInv'
<1> USE DEF PhInv
<1>1. UNCHANGED <<storage, attaching, row, bucket, files, stage, count, wantsGis, ready, made, broken>>
  BY DEF SendReport, deployVars, pressVars
<1>2. /\ row.status = "completed" /\ row.gis /\ sent' = TRUE /\ Keyed = 1..row.n
      /\ report' = {k \in Keyed : \E p \in row.by : <<p, k>> \in bucket}
  BY DEF SendReport
<1>3. PICK p \in Press : row.by = {p}
  BY <1>2 DEF RowKnows
<1>4. report' = 1..row.n
  BY <1>2, <1>3 DEF PhotosReachGis
<1>5. PhotosTypeOK'
  <2>1. row.n \in 0..PhotoLimit
    BY DEF PhotosTypeOK
  <2>2. report' \subseteq 1..PhotoLimit
    BY <1>4, <2>1, PhotosAssumption
  <2> QED BY <1>1, <1>2, <2>2 DEF PhotosTypeOK
<1>6. RowKnows' /\ OwnerKnows' /\ CopiesAreStored' /\ RequestKnows'
  BY <1>1, <1>2 DEF RowKnows, OwnerKnows, CopiesAreStored, RequestKnows
<1>7. SavedSoFar' /\ StagedSoFar' /\ PhotosReachGis'
  BY <1>1, <1>4 DEF SavedSoFar, StagedSoFar, Copied, PhotosReachGis, Keyed
<1> QED BY <1>5, <1>6, <1>7

\* Other settings find nobody under way.
LEMMA RestartStep == ASSUME PhInv, Restart PROVE PhInv'
<1> USE PhotosAssumption DEF PhInv
<1>1. /\ UNCHANGED <<row, bucket, files, count, wantsGis, ready, made, sent, report>>
      /\ storage' \in {"off", "private", "public"} /\ attaching' \in BOOLEAN
      /\ stage' = [p \in Press |-> IF stage[p] = "idle" THEN "idle" ELSE "done"]
  BY DEF Restart, gisVars
<1>2. broken' \in 0..MaxBroken
  BY DEF Restart, PhotosTypeOK
<1>3. PhotosTypeOK'
  BY <1>1, <1>2 DEF PhotosTypeOK, Stages
<1>4. \A p \in Press : stage'[p] = "done" \/ (stage'[p] = "idle" /\ stage[p] = "idle")
  BY <1>1
<1>5. RowKnows' /\ OwnerKnows' /\ CopiesAreStored' /\ RequestKnows'
  BY <1>1, <1>4 DEF RowKnows, OwnerKnows, CopiesAreStored, RequestKnows, Bringing
<1>6. SavedSoFar' /\ StagedSoFar' /\ PhotosReachGis'
  BY <1>1, <1>4 DEF SavedSoFar, StagedSoFar, PhotosReachGis, Keyed, Bringing
<1> QED BY <1>3, <1>5, <1>6

LEMMA StepPhInv ==
  ASSUME PhInv, [PhotosNext]_photoVars
  PROVE  /\ PhInv'
         /\ row'.links # row.links => storage = "public" /\ row'.links = 1..row'.n
<1>1. CASE \E p \in Press : RecordPhotos(p)
  BY <1>1, RecordStep
<1>2. CASE UNCHANGED photoVars
  BY <1>2 DEF photoVars, deployVars, pressVars, gisVars, PhInv, PhotosTypeOK, RowKnows, OwnerKnows,
     CopiesAreStored, RequestKnows, SavedSoFar, StagedSoFar, Copied, PhotosReachGis, Keyed
<1>3. CASE PhotosNext /\ ~\E p \in Press : RecordPhotos(p)
  <2>1. PhInv'
    BY <1>3, SubmitSteps, BeginStep, SavingSteps, SaveFailsStep, MarkStep, SendStep, RestartStep
       DEF PhotosNext
  <2>2. row'.links = row.links
    BY <1>3 DEF PhotosNext, Submit, Prepare, BeginReport, SavePhoto, SaveFails, StagePhoto, MarkTicket,
       SendReport, Restart, PhInv, PhotosTypeOK
  <2> QED BY <2>1, <2>2
<1> QED BY <1>1, <1>2, <1>3

\* The invariant holds whatever requests, adapters and settings do.
THEOREM PhotosInvariance == PhotosSpec => []PhInv
<1>1. PhInv /\ [PhotosNext]_photoVars => PhInv'
  BY StepPhInv
<1> QED BY <1>1, InitPhInv, PTL DEF PhotosSpec

\* Type correctness of the operation, the requests and what was stored.
THEOREM PhotosTypeCorrect == PhotosSpec => []PhotosTypeOK
<1>1. PhInv => PhotosTypeOK
  BY DEF PhInv
<1> QED BY <1>1, PhotosInvariance, PTL

\* A report for the GIS is sent with all its photos (save, stage_for_gis, send_gis).
THEOREM GisGetsThePhotos == PhotosSpec => []PhotosReachGis
<1>1. PhInv => PhotosReachGis
  BY DEF PhInv
<1> QED BY <1>1, PhotosInvariance, PTL

\* Links get into a comment from a public S3 only, one for each photo
\* (ObjectStorage.techportal_enabled, begin).
THEOREM LinksArePublicOnly == PhotosSpec => LinksArePublic
<1>1. PhInv /\ [PhotosNext]_photoVars
        => [row'.links # row.links => storage = "public" /\ row'.links = 1..row'.n]_photoVars
  BY StepPhInv
<1> QED BY <1>1, PhotosInvariance, PTL DEF PhotosSpec, LinksArePublic

-----------------------------------------------------------------------------
(* The services together.                                                   *)

\* A step of one service is no step of another.
LEMMA OneServiceRuns ==
  ASSUME [ServicesNext]_servicesVars
  PROVE  /\ UNCHANGED service
         /\ [Next]_vars /\ [SessionsNext]_sessVars /\ [LinksNext]_linkVars
         /\ [ResolutionNext]_resVars /\ [BudgetNext]_budgetVars /\ [PhotosNext]_photoVars
         /\ [AccessNext]_accessVars
<1>1. CASE ServicesNext
  BY <1>1 DEF ServicesNext, RuntimeRuns, SessionsRun, LinksRun, ResolutionRuns, BudgetRuns, PhotosRun,
     AccessRuns
<1>2. CASE UNCHANGED servicesVars
  BY <1>2 DEF servicesVars, restOfRuntime, vars
<1> QED BY <1>1, <1>2

\* Each service starts as it would alone.
LEMMA ServicesStart ==
  ServicesInit => /\ service \in Service /\ Init /\ SessionsInit /\ LinksInit /\ ResolutionInit
                  /\ BudgetInit /\ PhotosInit /\ AccessInit
  BY DEF ServicesInit

\* The composition implements each service's own specification: none depends on what
\* another does (create_application_services).
THEOREM ServicesAreSeparate ==
  ServicesSpec => /\ Init /\ [][Next]_vars /\ LinksSpec /\ SessionsSpec /\ ResolutionSpec
                  /\ BudgetSpec /\ PhotosSpec /\ AccessSpec
<1>1. [ServicesNext]_servicesVars
        => /\ [Next]_vars /\ [SessionsNext]_sessVars /\ [LinksNext]_linkVars
           /\ [ResolutionNext]_resVars /\ [BudgetNext]_budgetVars /\ [PhotosNext]_photoVars
           /\ [AccessNext]_accessVars
  BY OneServiceRuns
<1> QED
  BY <1>1, ServicesStart, PTL
     DEF ServicesSpec, LinksSpec, SessionsSpec, ResolutionSpec, BudgetSpec, PhotosSpec, AccessSpec

\* All that is inductive, for all services.
THEOREM ServicesInvariance ==
  ServicesSpec => [](service \in Service /\ RuntimeInv /\ SInv /\ LInv /\ RInv /\ BInv /\ PhInv /\ AInv)
<1>1. ServicesSpec => [](service \in Service)
  <2>1. service \in Service /\ [ServicesNext]_servicesVars => (service \in Service)'
    BY OneServiceRuns
  <2> QED BY <2>1, ServicesStart, PTL DEF ServicesSpec
<1>2. Init /\ [][Next]_vars => []RuntimeInv
  BY InitRuntimeInv, StepRuntimeInv, PTL
<1> QED
  BY <1>1, <1>2, ServicesAreSeparate, SessionsInvariance, LinksInvariance, ResolutionInvariance,
     BudgetInvariance, PhotosInvariance, AccessInvariance, PTL

\* Type correctness of every service, whichever runs.
THEOREM ServicesTypeCorrect == ServicesSpec => []ServicesTypeOK
<1>1. service \in Service /\ RuntimeInv /\ SInv /\ LInv /\ RInv /\ BInv /\ PhInv /\ AInv => ServicesTypeOK
  BY DEF ServicesTypeOK, RuntimeInv, SInv, LInv, RInv, BInv, PhInv, AInv
<1> QED BY <1>1, ServicesInvariance, PTL

\* What the services promise, they promise together.
THEOREM ServicesAreSafe ==
  ServicesSpec => /\ []LeasesInMode /\ []IdleSessionsEnd /\ []OneLinkEach /\ []OneNewClient
                  /\ []ClientIsWhole /\ []OverwriteIsChosen /\ []PhotosReachGis /\ []MembersOnly
                  /\ EndedStaysEnded /\ RevokedTokensDie /\ SlotsAreSpaced /\ LinksArePublic
<1>1. RuntimeInv => LeasesInMode
  BY DEF RuntimeInv
<1>2. ServicesSpec => []LeasesInMode
  BY <1>1, ServicesInvariance, PTL
<1> QED
  BY <1>2, ServicesAreSeparate, IdleSessionsAreOver, LinksAreUnique, ClientMadeOnce, ClientWhole,
     OverwritesAreChosen, GisGetsThePhotos, AccessIsProved, EndedForGood, RevocationReaches,
     BudgetIsKept, LinksArePublicOnly, PTL

===============================================================================
