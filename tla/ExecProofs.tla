----------------------------- MODULE ExecProofs -----------------------------
(***************************************************************************)
(* The safety of the exec command, for any number of certificate versions, *)
(* tries and expirations: see Exec.                                        *)
(***************************************************************************)
EXTENDS Exec, TLAPS

\* A pass of persist has written what comes before the file it is at.
PassOrder ==
    /\ writing \in {"cert", "key"} /\ ca # 0 => "ca" \in written
    /\ writing = "key" => "cert" \in written

\* What the files hold while a pass is under way, and before the first one.
Disk ==
    /\ ca = 0 => file["ca"] = 0 /\ writing # "ca"
    /\ pair = 0 => file["cert"] = 0 /\ file["key"] = 0 /\ writing \notin {"cert", "key"}
    /\ writing \in {"cert", "key"} => file["ca"] = ca
    /\ writing = "key" => file["cert"] = pair

CertInv == SignalledIsWritten /\ PassOrder /\ Disk /\ PairOnDisk

\* Once the loop is cancelled, nothing is sent that was not under way then.
Leaving ==
    /\ main = "deregister" => loop = "stopped" /\ (underWay => atCancel)
    /\ deregistered =>
        /\ main = "returned" /\ loop = "stopped"
        /\ underWay => atCancel
        /\ registered => atCancel

ExecInv == TypeOK /\ CertInv /\ EnvoyWithinItsMeans /\ Leaving

----------------------------------------------------------------------------
\* The certificate manager's part.

LEMMA Numbers ==
    ASSUME CertTypeOK
    PROVE  /\ root \in 0..MaxVersion /\ root # 0 /\ leaf \in 0..MaxVersion /\ leaf # 0
           /\ ca \in 0..Torn /\ pair \in 0..Torn /\ Torn \in 0..Torn
           /\ root < MaxVersion => root + 1 \in Versions
           /\ leaf < MaxVersion => leaf + 1 \in Versions
BY CertManagerAssumption DEF CertTypeOK, Versions, Torn

\* Opening a file.
LEMMA OpenKeepsInv ==
    ASSUME CertTypeOK, CertInv, OpenFile
    PROVE  CertTypeOK' /\ CertInv' /\ written \subseteq written'
<1>1. CertTypeOK'
    BY Numbers DEF OpenFile, CertTypeOK
<1>2. file' = [file EXCEPT ![writing] = Torn] /\ file \in [Files -> 0..Torn]
    BY DEF OpenFile, CertTypeOK
<1>3. /\ UNCHANGED <<ca, pair, writing, failed, signalled, written>>
      /\ writing \in Files
    BY DEF OpenFile, CertTypeOK
<1>4. Disk'
    BY <1>2, <1>3 DEF CertInv, Disk, Files
<1>5. SignalledIsWritten' /\ PassOrder' /\ PairOnDisk'
    BY <1>3 DEF CertInv, SignalledIsWritten, PassOrder, PairOnDisk, Files
<1> QED BY <1>1, <1>3, <1>4, <1>5 DEF CertInv

\* Writing it, one case for each of the three: the pass goes on, or ends with
\* the signal if everything is cached.
LEMMA WriteKeepsInv ==
    ASSUME CertTypeOK, CertInv, WriteFile
    PROVE  CertTypeOK' /\ CertInv' /\ written \subseteq written'
<1> USE DEF Files
<1>1. /\ writing \in Files /\ file \in [Files -> 0..Torn] /\ written \subseteq Files
      /\ file' = [file EXCEPT ![writing] = Cached(writing)]
      /\ written' = written \cup {writing}
      /\ writing' = NextFile(writing)
      /\ opened' = FALSE
      /\ UNCHANGED <<root, leaf, seenRoot, seenLeaf, ca, pair, manage>>
    BY DEF WriteFile, CertTypeOK
<1>2. IF NextFile(writing) = "none"
      THEN signalled' = (signalled \/ (ca # 0 /\ pair # 0)) /\ failed' = FALSE
      ELSE UNCHANGED <<signalled, failed>>
    BY DEF WriteFile
<1>3. CertTypeOK'
    <2>1. Cached(writing) \in 0..Torn /\ NextFile(writing) \in Files \cup {"none"}
        BY <1>1, Numbers DEF Cached, NextFile
    <2>2. file' \in [Files -> 0..Torn] /\ written' \in SUBSET Files
        BY <1>1, <2>1
    <2>3. signalled' \in BOOLEAN /\ failed' \in BOOLEAN
        BY <1>2 DEF CertTypeOK
    <2> QED BY <1>1, <2>1, <2>2, <2>3 DEF CertTypeOK
<1>4. CASE writing = "ca"
    <2>1. writing' = (IF pair # 0 THEN "cert" ELSE "none") /\ Cached(writing) = ca
        BY <1>1, <1>4 DEF NextFile, Cached
    <2>2. /\ file'["ca"] = ca /\ file'["cert"] = file["cert"] /\ file'["key"] = file["key"]
          /\ "ca" \in written'
        BY <1>1, <1>4, <2>1
    <2>3. ca # 0
        BY <1>4 DEF CertInv, Disk
    <2>4. SignalledIsWritten'
        BY <1>1, <1>2, <1>4, <2>1 DEF CertInv, SignalledIsWritten
    <2>5. PassOrder' /\ Disk' /\ PairOnDisk'
        BY <1>1, <2>1, <2>2, <2>3 DEF CertInv, PassOrder, Disk, PairOnDisk
    <2> QED BY <1>1, <1>3, <2>4, <2>5 DEF CertInv
<1>5. CASE writing = "cert"
    <2>1. writing' = "key" /\ Cached(writing) = pair /\ NextFile(writing) # "none"
        BY <1>1, <1>5 DEF NextFile, Cached
    <2>2. /\ file'["ca"] = file["ca"] /\ file'["cert"] = pair /\ file'["key"] = file["key"]
          /\ "cert" \in written'
        BY <1>1, <1>5, <2>1
    <2>3. SignalledIsWritten'
        BY <1>1, <1>2, <2>1 DEF CertInv, SignalledIsWritten
    <2>4. PassOrder' /\ Disk' /\ PairOnDisk'
        BY <1>1, <1>5, <2>1, <2>2 DEF CertInv, PassOrder, Disk, PairOnDisk
    <2> QED BY <1>1, <1>3, <2>3, <2>4 DEF CertInv
<1>6. CASE writing = "key"
    <2>1. writing' = "none" /\ Cached(writing) = pair
        BY <1>1, <1>6 DEF NextFile, Cached
    <2>2. /\ file'["ca"] = file["ca"] /\ file'["cert"] = file["cert"] /\ file'["key"] = pair
        BY <1>1, <1>6, <2>1
    <2>3. SignalledIsWritten'
        <3>1. ca # 0 => written' = Files
            BY <1>1, <1>6 DEF CertInv, PassOrder
        <3>2. signalled => written' = Files
            BY <1>1 DEF CertInv, SignalledIsWritten
        <3>3. signalled' => signalled \/ ca # 0
            BY <1>1, <1>2, <2>1
        <3> QED BY <3>1, <3>2, <3>3 DEF SignalledIsWritten
    <2>4. PassOrder' /\ Disk' /\ PairOnDisk'
        BY <1>1, <1>6, <2>1, <2>2 DEF CertInv, PassOrder, Disk, PairOnDisk
    <2> QED BY <1>1, <1>3, <2>3, <2>4 DEF CertInv
<1> QED BY <1>1, <1>4, <1>5, <1>6

\* An error ends the pass: what was signalled stays so, nothing is signalled.
LEMMA WriteFailsKeepsInv ==
    ASSUME CertTypeOK, CertInv, WriteFails
    PROVE  CertTypeOK' /\ CertInv' /\ written \subseteq written'
<1>1. CertTypeOK'
    BY DEF WriteFails, CertTypeOK
<1>2. writing' = "none" /\ failed' = TRUE /\ UNCHANGED <<ca, pair, file, signalled, written>>
    BY DEF WriteFails
<1>3. SignalledIsWritten' /\ PassOrder' /\ Disk' /\ PairOnDisk'
    BY <1>2 DEF CertInv, SignalledIsWritten, PassOrder, Disk, PairOnDisk
<1> QED BY <1>1, <1>2, <1>3 DEF CertInv

\* A new root, or a new pair, is cached and a pass begins.
LEMMA HandlersKeepInv ==
    ASSUME CertTypeOK, CertInv, handleRootWatch \/ handleLeafWatch \/ FetchLeaf
    PROVE  CertTypeOK' /\ CertInv' /\ written \subseteq written'
<1>1. CASE handleRootWatch
    <2>1. /\ ca' = root /\ ca' # 0 /\ writing = "none" /\ writing' = "ca"
          /\ UNCHANGED <<pair, file, failed, signalled, written>>
        BY <1>1, Numbers DEF handleRootWatch, Unlocked
    <2>2. SignalledIsWritten' /\ PassOrder' /\ Disk' /\ PairOnDisk'
        BY <2>1 DEF CertInv, SignalledIsWritten, PassOrder, Disk, PairOnDisk
    <2>3. CertTypeOK'
        BY <1>1, Numbers DEF handleRootWatch, CertTypeOK, Files
    <2> QED BY <2>1, <2>2, <2>3 DEF CertInv
<1>2. ASSUME handleLeafWatch \/ FetchLeaf
      PROVE  CertTypeOK' /\ CertInv' /\ written \subseteq written'
    <2>1. /\ pair' = leaf /\ pair' # 0 /\ writing = "none" /\ writing' = FirstFile(ca)
          /\ UNCHANGED <<ca, file, failed, signalled, written>>
        BY <1>2, Numbers DEF handleLeafWatch, FetchLeaf, CacheLeaf, Unlocked
    <2>2. writing' \in {"ca", "cert"} /\ (writing' = "ca" <=> ca # 0)
        BY <2>1 DEF FirstFile
    <2>3. SignalledIsWritten' /\ PassOrder'
        BY <2>1, <2>2 DEF CertInv, SignalledIsWritten, PassOrder
    <2>4. Disk' /\ PairOnDisk'
        BY <2>1, <2>2 DEF CertInv, Disk, PairOnDisk
    <2>5. CASE handleLeafWatch
        <3>1. CertTypeOK'
            BY <2>2, <2>5, Numbers DEF handleLeafWatch, CacheLeaf, CertTypeOK, Files
        <3> QED BY <2>1, <2>3, <2>4, <3>1 DEF CertInv
    <2>6. CASE FetchLeaf
        <3>1. CertTypeOK'
            BY <2>2, <2>6, Numbers DEF FetchLeaf, CacheLeaf, CertTypeOK, Files, ManageStates
        <3> QED BY <2>1, <2>3, <2>4, <3>1 DEF CertInv
    <2> QED BY <1>2, <2>5, <2>6
<1> QED BY <1>1, <1>2

\* Steps that touch neither the cache nor the files.
LEMMA OthersKeepCertInv ==
    ASSUME CertTypeOK, CertInv,
           \/ IgnoreResult \/ RotateRoot \/ RotateLeaf
           \/ StartWatches \/ StopWatches \/ FetchLeafFails \/ FetchLeafUnusable
    PROVE  CertTypeOK' /\ CertInv' /\ written \subseteq written'
<1>1. UNCHANGED <<ca, pair, file, writing, failed, signalled, written>>
    BY DEF IgnoreResult, RotateRoot, RotateLeaf, StartWatches, StopWatches, FetchLeafFails,
           FetchLeafUnusable
<1>2. SignalledIsWritten' /\ PassOrder' /\ Disk' /\ PairOnDisk'
    BY <1>1 DEF CertInv, SignalledIsWritten, PassOrder, Disk, PairOnDisk
<1>3. CASE IgnoreResult
    BY <1>3, Numbers, <1>1, <1>2 DEF IgnoreResult, CertTypeOK, CertInv
<1>4. CASE RotateRoot \/ RotateLeaf
    BY <1>4, Numbers, <1>1, <1>2 DEF RotateRoot, RotateLeaf, CertTypeOK, CertInv
<1>5. CASE StartWatches \/ StopWatches \/ FetchLeafFails \/ FetchLeafUnusable
    BY <1>5, <1>1, <1>2 DEF StartWatches, StopWatches, FetchLeafFails, FetchLeafUnusable,
                            CertTypeOK, CertInv, ManageStates
<1> QED BY <1>3, <1>4, <1>5

LEMMA UnchangedCertInv ==
    ASSUME CertTypeOK, CertInv,
           UNCHANGED <<root, leaf, seenRoot, seenLeaf, ca, pair, file, writing, opened,
                       failed, signalled, written>>,
           manage' \in ManageStates
    PROVE  CertTypeOK' /\ CertInv' /\ written' = written
BY DEF CertTypeOK, CertInv, SignalledIsWritten, PassOrder, Disk, PairOnDisk

----------------------------------------------------------------------------
\* The registration's part: what its steps do to the types.
LEMMA Counts ==
    ASSUME RegTypeOK
    PROVE  /\ 0 \in 0..Tries /\ 0 \in 0..MaxOutages
           /\ attempts < Tries => attempts + 1 \in 0..Tries
           /\ outages < MaxOutages => outages + 1 \in 0..MaxOutages
BY RegistrationAssumption DEF RegTypeOK

LEMMA RegKeepsTypes ==
    ASSUME RegTypeOK,
           \/ Register \/ CancelLoop \/ Deregister
           \/ ensureRegistration \/ updateTTL
           \/ Applied \/ Lost \/ TTLExpires \/ Reap
    PROVE  RegTypeOK'
<1> USE Counts DEF RegTypeOK, LoopStates
<1>1. CASE Register
    BY <1>1 DEF Register
<1>2. CASE CancelLoop
    BY <1>2 DEF CancelLoop
<1>3. CASE Deregister
    BY <1>3 DEF Deregister
<1>4. CASE ensureRegistration \/ updateTTL
    BY <1>4 DEF ensureRegistration, updateTTL
<1>5. CASE Applied \/ Lost
    BY <1>5 DEF Applied, Lost
<1>6. CASE TTLExpires
    BY <1>6 DEF TTLExpires
<1>7. CASE Reap
    BY <1>7 DEF Reap
<1> QED BY <1>1, <1>2, <1>3, <1>4, <1>5, <1>6, <1>7

LEMMA FailuresKeepTypes ==
    ASSUME RegTypeOK, attempts < Tries, NEW applied \in BOOLEAN,
           RegisterFails(applied) \/ DeregisterFails(applied)
    PROVE  RegTypeOK'
<1>1. attempts' \in 0..Tries /\ UNCHANGED <<outages, loop, underWay, atCancel>>
    BY Counts DEF RegisterFails, DeregisterFails
<1>2. registered' \in BOOLEAN /\ passing' \in BOOLEAN
    BY DEF RegisterFails, DeregisterFails
<1> QED BY <1>1, <1>2 DEF RegTypeOK

\* The state of RunExec while nothing of the certificate manager changes.
LEMMA MainKeepsTypes ==
    ASSUME TypeOK, CertInv, UNCHANGED certVars
    PROVE  CertTypeOK' /\ CertInv' /\ written' = written
BY UnchangedCertInv DEF certVars, TypeOK, CertTypeOK

----------------------------------------------------------------------------
\* The first state.
LEMMA InitExecInv == Init => ExecInv
<1> SUFFICES ASSUME Init PROVE ExecInv
    OBVIOUS
<1>1. CertTypeOK
    <2>1. 0 \in 0..MaxVersion /\ 1 \in Versions /\ 0 \in 0..Torn
        BY CertManagerAssumption DEF Versions, Torn
    <2> QED BY <2>1 DEF Init, CertInit, CertTypeOK, ManageStates
<1>2. RegTypeOK
    <2>1. 0 \in 0..Tries /\ 0 \in 0..MaxOutages
        BY RegistrationAssumption
    <2> QED BY <2>1 DEF Init, RegInit, RegTypeOK, LoopStates
<1>3. CertInv
    BY DEF Init, CertInit, CertInv, SignalledIsWritten, PassOrder, Disk, PairOnDisk, Files
<1>4. TypeOK
    BY <1>1, <1>2 DEF Init, TypeOK, MainStates, EnvoyStates
<1>5. EnvoyWithinItsMeans /\ Leaving
    BY DEF Init, EnvoyWithinItsMeans, Leaving
<1> QED BY <1>3, <1>4, <1>5 DEF ExecInv

\* RunExec, step by step.
LEMMA RunExecKeepsInv ==
    ASSUME ExecInv, RunExec
    PROVE  ExecInv'
<1> USE DEF MainStates, EnvoyStates
<1>0. /\ TypeOK /\ CertInv /\ EnvoyWithinItsMeans /\ Leaving
      /\ CertTypeOK /\ RegTypeOK
    BY DEF ExecInv, TypeOK
<1>1. ASSUME NEW ok \in BOOLEAN, Connect(ok) PROVE ExecInv'
    <2>1. CertTypeOK' /\ CertInv' /\ written' = written
        BY <1>0, <1>1, MainKeepsTypes DEF Connect
    <2>2. RegTypeOK'
        BY <1>0, <1>1 DEF Connect, regVars, RegTypeOK
    <2>3. TypeOK' /\ EnvoyWithinItsMeans' /\ Leaving'
        BY <1>0, <1>1, <2>1, <2>2 DEF Connect, regVars, TypeOK, EnvoyWithinItsMeans, Leaving
    <2> QED BY <2>1, <2>3 DEF ExecInv
<1>2. CASE RegisterGateway
    <2>1. CertTypeOK' /\ CertInv' /\ written' = written
        BY <1>0, <1>2, MainKeepsTypes DEF RegisterGateway
    <2>2. RegTypeOK'
        BY <1>0, <1>2, RegKeepsTypes DEF RegisterGateway
    <2>3. TypeOK' /\ EnvoyWithinItsMeans' /\ Leaving'
        BY <1>0, <1>2, <2>1, <2>2 DEF RegisterGateway, TypeOK, EnvoyWithinItsMeans, Leaving
    <2> QED BY <2>1, <2>3 DEF ExecInv
<1>3. ASSUME NEW applied \in BOOLEAN, RegisterGatewayFails(applied) PROVE ExecInv'
    <2>1. CertTypeOK' /\ CertInv' /\ written' = written
        BY <1>0, <1>3, MainKeepsTypes DEF RegisterGatewayFails
    <2>2. RegTypeOK'
        BY <1>0, <1>3, FailuresKeepTypes DEF RegisterGatewayFails
    <2>3. main' \in {"register", "returned"} /\ UNCHANGED <<cancelled, groupDone, envoy, deregistered>>
        BY <1>3 DEF RegisterGatewayFails
    <2>4. TypeOK' /\ EnvoyWithinItsMeans' /\ Leaving'
        BY <1>0, <1>3, <2>1, <2>2, <2>3
        DEF RegisterGatewayFails, TypeOK, EnvoyWithinItsMeans, Leaving
    <2> QED BY <2>1, <2>4 DEF ExecInv
<1>4. CASE Render
    <2>1. CertTypeOK' /\ CertInv' /\ written' = written
        BY <1>0, <1>4, UnchangedCertInv DEF Render, ManageStates
    <2>2. RegTypeOK'
        BY <1>0, <1>4 DEF Render, regVars, RegTypeOK
    <2>3. TypeOK' /\ EnvoyWithinItsMeans' /\ Leaving'
        BY <1>0, <1>4, <2>1, <2>2 DEF Render, regVars, TypeOK, EnvoyWithinItsMeans, Leaving
    <2> QED BY <2>1, <2>3 DEF ExecInv
<1>5. ASSUME BeginReturn, main # "returned", envoy # "running",
             UNCHANGED <<certVars, cancelled, groupDone, envoy, deregistered>>
      PROVE  ExecInv'
    <2>1. CertTypeOK' /\ CertInv' /\ written' = written
        BY <1>0, <1>5, MainKeepsTypes
    <2>2. RegTypeOK'
        BY <1>0, <1>5, RegKeepsTypes DEF BeginReturn
    <2>3. TypeOK' /\ EnvoyWithinItsMeans' /\ Leaving'
        BY <1>0, <1>5, <2>1, <2>2 DEF BeginReturn, CancelLoop, TypeOK, EnvoyWithinItsMeans, Leaving
    <2> QED BY <2>1, <2>3 DEF ExecInv
<1>6. CASE RenderFails
    BY <1>0, <1>5, <1>6 DEF RenderFails, EnvoyWithinItsMeans
<1>7. CASE WaitForWrite
    <2>1. CertTypeOK' /\ CertInv' /\ written' = written
        BY <1>0, <1>7, MainKeepsTypes DEF WaitForWrite
    <2>2. RegTypeOK'
        BY <1>0, <1>7 DEF WaitForWrite, regVars, RegTypeOK
    <2>3. EnvoyWithinItsMeans'
        BY <1>0, <1>7, <2>1 DEF WaitForWrite, EnvoyWithinItsMeans, CertInv, SignalledIsWritten
    <2>4. TypeOK' /\ Leaving'
        BY <1>0, <1>7, <2>1, <2>2 DEF WaitForWrite, regVars, TypeOK, Leaving
    <2> QED BY <2>1, <2>3, <2>4 DEF ExecInv
<1>8. CASE WaitForWriteFails
    BY <1>0, <1>5, <1>8 DEF WaitForWriteFails, EnvoyWithinItsMeans
<1>9. CASE GroupWait
    BY <1>5, <1>9 DEF GroupWait
<1>10. CASE DeregisterGateway
    <2>1. CertTypeOK' /\ CertInv' /\ written' = written
        BY <1>0, <1>10, MainKeepsTypes DEF DeregisterGateway
    <2>2. RegTypeOK'
        BY <1>0, <1>10, RegKeepsTypes DEF DeregisterGateway
    <2>3. TypeOK' /\ EnvoyWithinItsMeans'
        BY <1>0, <1>10, <2>1, <2>2 DEF DeregisterGateway, TypeOK, EnvoyWithinItsMeans
    <2>4. Leaving'
        BY <1>0, <1>10 DEF DeregisterGateway, Deregister, Leaving
    <2> QED BY <2>1, <2>3, <2>4 DEF ExecInv
<1>11. ASSUME NEW applied \in BOOLEAN, DeregisterGatewayFails(applied) PROVE ExecInv'
    <2>1. CertTypeOK' /\ CertInv' /\ written' = written
        BY <1>0, <1>11, MainKeepsTypes DEF DeregisterGatewayFails
    <2>2. RegTypeOK'
        BY <1>0, <1>11, FailuresKeepTypes DEF DeregisterGatewayFails
    <2>3. /\ main = "deregister" /\ main' \in {"deregister", "returned"}
          /\ UNCHANGED <<cancelled, groupDone, envoy, deregistered, loop, underWay, atCancel>>
        BY <1>11 DEF DeregisterGatewayFails, DeregisterFails
    <2>4. TypeOK' /\ EnvoyWithinItsMeans' /\ Leaving'
        BY <1>0, <2>1, <2>2, <2>3 DEF TypeOK, EnvoyWithinItsMeans, Leaving
    <2> QED BY <2>1, <2>4 DEF ExecInv
<1> QED BY <1>1, <1>2, <1>3, <1>4, <1>6, <1>7, <1>8, <1>9, <1>10, <1>11 DEF RunExec

\* The other goroutines, Envoy and Consul.
LEMMA OthersKeepInv ==
    ASSUME ExecInv,
           \/ Interrupt \/ EnvoyFails \/ EnvoyExits \/ EnvoyKilled
           \/ ManageReturns \/ ManageFails \/ Certs \/ CertFaults
           \/ Keep \/ Renew \/ ConsulApplies \/ ConsulForgets \/ ConsulReaps
    PROVE  ExecInv'
<1> USE DEF MainStates, EnvoyStates
<1>0. /\ TypeOK /\ CertInv /\ EnvoyWithinItsMeans /\ Leaving
      /\ CertTypeOK /\ RegTypeOK
    BY DEF ExecInv, TypeOK
<1>1. CASE Interrupt \/ EnvoyFails \/ EnvoyExits \/ EnvoyKilled
    <2>1. UNCHANGED certVars /\ UNCHANGED regVars /\ UNCHANGED <<main, deregistered>>
        BY <1>1 DEF Interrupt, EnvoyFails, EnvoyExits, EnvoyKilled
    <2>2. /\ envoy' = envoy \/ (envoy = "running" /\ envoy' \in {"failed", "exited", "killed"})
          /\ cancelled' \in BOOLEAN /\ groupDone' \in BOOLEAN
        BY <1>0, <1>1 DEF Interrupt, EnvoyFails, EnvoyExits, EnvoyKilled, TypeOK
    <2>3. CertTypeOK' /\ CertInv' /\ written' = written
        BY <1>0, <2>1, MainKeepsTypes
    <2>4. TypeOK' /\ EnvoyWithinItsMeans' /\ Leaving'
        BY <1>0, <2>1, <2>2, <2>3 DEF regVars, TypeOK, RegTypeOK, EnvoyWithinItsMeans, Leaving
    <2> QED BY <2>3, <2>4 DEF ExecInv
<1>2. CASE ManageReturns \/ ManageFails \/ Certs \/ CertFaults
    <2>1. /\ UNCHANGED regVars /\ UNCHANGED <<main, cancelled, envoy, deregistered>>
          /\ groupDone' \in BOOLEAN
        BY <1>0, <1>2 DEF ManageReturns, ManageFails, Certs, CertFaults, execVars, TypeOK
    <2>2. \/ OpenFile \/ WriteFile \/ WriteFails
          \/ handleRootWatch \/ handleLeafWatch \/ FetchLeaf
          \/ IgnoreResult \/ RotateRoot \/ RotateLeaf
          \/ StartWatches \/ StopWatches \/ FetchLeafFails \/ FetchLeafUnusable
        BY <1>2 DEF ManageReturns, ManageFails, Certs, CertFaults, CertStep
    <2>3. CertTypeOK' /\ CertInv' /\ written \subseteq written'
        BY <1>0, <2>2, OpenKeepsInv, WriteKeepsInv, WriteFailsKeepsInv, HandlersKeepInv,
           OthersKeepCertInv
    <2>4. written = Files => written' = Files
        BY <2>3 DEF CertTypeOK
    <2>5. TypeOK' /\ EnvoyWithinItsMeans' /\ Leaving'
        BY <1>0, <2>1, <2>3, <2>4 DEF regVars, TypeOK, RegTypeOK, EnvoyWithinItsMeans, Leaving
    <2> QED BY <2>3, <2>5 DEF ExecInv
<1>3. CASE Keep \/ Renew \/ ConsulApplies \/ ConsulForgets \/ ConsulReaps
    <2>1. /\ UNCHANGED certVars /\ UNCHANGED <<main, cancelled, groupDone, envoy, deregistered>>
          /\ ensureRegistration \/ updateTTL \/ Applied \/ Lost \/ TTLExpires \/ Reap
        BY <1>3 DEF Keep, Renew, ConsulApplies, ConsulForgets, ConsulReaps, execVars
    <2>2. CertTypeOK' /\ CertInv' /\ written' = written
        BY <1>0, <2>1, MainKeepsTypes
    <2>3. RegTypeOK'
        BY <1>0, <2>1, RegKeepsTypes
    <2>4. Leaving'
        BY <1>0, <2>1 DEF ensureRegistration, updateTTL, Applied, Lost, TTLExpires, Reap, Leaving
    <2>5. TypeOK' /\ EnvoyWithinItsMeans'
        BY <1>0, <2>1, <2>2, <2>3 DEF TypeOK, EnvoyWithinItsMeans
    <2> QED BY <2>2, <2>4, <2>5 DEF ExecInv
<1> QED BY <1>1, <1>2, <1>3

LEMMA NextKeepsExecInv == ExecInv /\ [Next]_vars => ExecInv'
<1> SUFFICES ASSUME ExecInv, [Next]_vars PROVE ExecInv'
    OBVIOUS
<1>1. CASE Next
    BY <1>1, RunExecKeepsInv, OthersKeepInv DEF Next
<1>2. CASE UNCHANGED vars
    <2>1. CertTypeOK' /\ CertInv' /\ written' = written
        BY <1>2, MainKeepsTypes DEF vars, ExecInv
    <2>2. TypeOK' /\ EnvoyWithinItsMeans' /\ Leaving'
        BY <1>2, <2>1 DEF vars, regVars, execVars, ExecInv, TypeOK, RegTypeOK,
                          EnvoyWithinItsMeans, Leaving
    <2> QED BY <2>1, <2>2 DEF ExecInv
<1> QED BY <1>1, <1>2

LEMMA ExecInvHolds == Spec => []ExecInv
BY InitExecInv, NextKeepsExecInv, PTL DEF Spec

----------------------------------------------------------------------------
\* The signal that lets RunExec start Envoy (certmanager.go, persist) is given
\* only after each of the three files has been written to the end, whichever
\* writes failed before and whichever watch reported first.
THEOREM SignalIsEarned == Spec => []SignalledIsWritten
<1>1. ExecInv => SignalledIsWritten
    BY DEF ExecInv, CertInv
<1> QED BY <1>1, ExecInvHolds, PTL

\* When no write is under way and the last pass did not fail, the certificate
\* and the key on disk are one pair, that of the cache, and the root is the
\* cached one (certmanager.go, persist).
THEOREM FilesMatchTheCache == Spec => []PairOnDisk
<1>1. ExecInv => PairOnDisk
    BY DEF ExecInv, CertInv
<1> QED BY <1>1, ExecInvHolds, PTL

\* Envoy runs only when its files have been written, and only while RunExec
\* waits for it (exec.go, group.Wait), through failures, exits and interrupts.
THEOREM EnvoyHasItsMeans == Spec => []EnvoyWithinItsMeans
<1>1. ExecInv => EnvoyWithinItsMeans
    BY DEF ExecInv
<1> QED BY <1>1, ExecInvHolds, PTL

\* A service that is registered after a successful deregistration is one whose
\* registration was under way when Deregister cancelled the loop
\* (registration.go): there is no other way back.
THEOREM OnlyLateRegistrationsReturn == Spec => []OnlyUnderWayReturns
<1>1. ExecInv => OnlyUnderWayReturns
    BY DEF ExecInv, Leaving, OnlyUnderWayReturns
<1> QED BY <1>1, ExecInvHolds, PTL
=============================================================================
