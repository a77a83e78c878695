------------------------- MODULE ProverClientProofs -------------------------
(***************************************************************************)
(* The SDK rejects a proof it made only for a reason: RejectionHasACause   *)
(* for any number of processes, calls, builds, kinds, provers and          *)
(* environments.                                                           *)
(*                                                                         *)
(* The inductive invariant says what is known of a proof of the local      *)
(* prover from the check of the digest on (Sound, Wrapped), what a call    *)
(* that is at the artifacts holds (AtWork), and that a release directory   *)
(* of Groth16 never holds a circuit of the other mode or of another setup  *)
(* (ReleaseDirs).                                                          *)
(***************************************************************************)
EXTENDS ProverClient, TLAPS

Kind == {"none", "Core", "Compressed", "Plonk", "Groth16", "DvSnark", "CompressToGroth16"}

AnyCircuit == [imm : BOOLEAN, key : Nat]

Bundles == [kind : Kind, by : {"none", "cpu", "mock", "network"}, env : Envs,
            pv : {"none", "guest", "mixedup"},
            committed : {"none"} \cup ({"guest", "mixedup"} \X BOOLEAN),
            vk : {"none", "plain", "combined"},
            key : AnyCircuit \cup {None}, vkeyHash : AnyCircuit \cup {None}]

\* Where a call is while it installs the artifacts, and while it builds them.
Installing == {"check", "create", "download", "unpack", "unpacking"}
Building == {"build", "building"}

AtNetwork == {"request", "connect", "loop", "asked", "sleep", "fetch", "fetched"}
AtRest == {"idle", "failed", "panicked"}

Pcs == Installing \cup Building \cup AtNetwork \cup AtRest \cup
           {"wrap", "selfverify", "verifystark", "verifysnark"}

Calls == [pc : Pcs,
          prover : {"none", "cpu", "network"}, kind : Kind,
          type : {"none"} \cup Types, env : Envs,
          use : {"none", "wrap", "verifysnark"}, bundle : Bundles]

Directories == [state : {"absent", "partial", "whole"}, circuit : AnyCircuit \cup {None}]

ClientTypeOK ==
    /\ disk \in [Dirs -> Directories]
    /\ builds \in Nat
    /\ provingKey \in [Processes -> AnyCircuit \cup {None}]
    /\ call \in [Processes -> Calls]
    /\ guestImm \in BOOLEAN
    /\ proofs \subseteq Bundles

Snarks == {"Plonk", "Groth16"}

\* A proof of the local prover: the guest committed to its public values with its
\* own hash function, and before a snark that is compared with the environment.
Sound(b) ==
    /\ b.kind \in {"Core", "Compressed", "DvSnark"} \cup Snarks
    /\ b.committed = HashOf("guest", guestImm)
    /\ b.kind \in {"Core", "Compressed"} => b.pv = "guest"
    /\ b.kind \in Snarks => DigestMatches(b, b.env)

\* A snark that prove has returned.
Wrapped(b) ==
    /\ b.vk = VkHash(SnarkType(b.kind), b.env.imm)
    /\ b.vkeyHash = b.key
    /\ b.kind = "Groth16" /\ ~b.env.dev =>
           b.key = [imm |-> b.env.imm, key |-> ReleaseKey]

ProofsAreSound ==
    \A b \in proofs : b.by = "cpu" => Sound(b) /\ (b.kind \in Snarks => Wrapped(b))

\* What a call that is about the artifacts holds: a proof of its own to wrap, or a
\* proof that was returned to verify.
Wrapping(c) ==
    /\ c.pc \in Installing \cup Building \cup {"wrap", "selfverify"}
    /\ c.use = "wrap"
    /\ c.bundle.by = "cpu" /\ c.bundle.env = c.env
    /\ c.bundle.kind \in Snarks /\ Sound(c.bundle)
    /\ c.type = SnarkType(c.bundle.kind)
    /\ c.pc = "selfverify" => c.bundle.vk = VkHash(c.type, c.env.imm)

Verifying(c) ==
    /\ c.pc \in Installing \cup {"verifystark", "verifysnark"}
    /\ c.use = "verifysnark"
    /\ c.bundle \in proofs
    /\ c.type = SnarkType(c.bundle.kind)
    /\ c.pc = "verifystark" <=> c.bundle.kind \notin Snarks

CallOK(c) ==
    /\ c.pc \in AtNetwork \cup AtRest \/ Wrapping(c) \/ Verifying(c)
    /\ c.pc \in Installing => ~c.env.dev
    /\ c.pc \in Building => c.env.dev

AtWork == \A p \in Processes : CallOK(call[p])

\* The release directories of Groth16, one for each mode.
ReleaseDirs ==
    \A imm \in BOOLEAN :
        LET d == ReleaseDir("groth16", imm)
        IN disk[d].state = "whole" => disk[d].circuit = [imm |-> imm, key |-> ReleaseKey]

ClientInv == ClientTypeOK /\ ProofsAreSound /\ AtWork /\ ReleaseDirs

-----------------------------------------------------------------------------
(* Types. *)

\* The call at rest is one, whatever it did.
LEMMA AtTyped ==
    ASSUME NEW pc \in AtRest \cup AtNetwork
    PROVE  At(pc) \in Calls /\ At(pc).pc = pc /\ CallOK(At(pc)) /\ At(pc).bundle = NoProof
<1>1. NoEnv \in Envs
  BY DEF NoEnv, Envs
<1>2. NoProof \in Bundles
  BY <1>1 DEF NoProof, Bundles, Kind
<1>3. At(pc) \in Calls
  BY <1>1, <1>2 DEF At, Calls, Pcs, Kind
<1>4. At(pc).pc = pc /\ At(pc).bundle = NoProof
  BY DEF At
<1> QED
  BY <1>3, <1>4 DEF CallOK, AtRest, AtNetwork, Installing, Building

\* Each directory that a call can be about is one of the machine's.
LEMMA DirTyped ==
    ASSUME NEW type \in Types, NEW env \in Envs
    PROVE  ArtifactsDir(type, env) \in Dirs
BY DEF Dirs

\* Of the release directories, the mode of Groth16 tells which one it is; no other
\* call is about one.
LEMMA DirsApart ==
    ASSUME NEW type \in {"none"} \cup Types, NEW env \in Envs, NEW imm \in BOOLEAN
    PROVE  /\ ReleaseDir("groth16", imm) \in Dirs
           /\ ArtifactsDir(type, env) = ReleaseDir("groth16", imm) =>
                  type = "groth16" /\ ~env.dev /\ env.imm = imm
<1>1. [dev |-> FALSE, imm |-> imm] \in Envs /\ "groth16" \in Types
  BY DEF Envs, Types
<1>2. ArtifactsDir("groth16", [dev |-> FALSE, imm |-> imm]) = ReleaseDir("groth16", imm)
  BY DEF ArtifactsDir
<1>3. ReleaseDir("groth16", imm) \in Dirs
  BY <1>1, <1>2, DirTyped
<1>4. env.dev \in BOOLEAN /\ env.imm \in BOOLEAN
  BY DEF Envs
<1>5. ASSUME ArtifactsDir(type, env) = ReleaseDir("groth16", imm)
      PROVE  type = "groth16" /\ ~env.dev /\ env.imm = imm
  BY <1>4, <1>5 DEF ArtifactsDir, ReleaseDir, Types
<1> QED
  BY <1>3, <1>5

\* The modes name environments.
LEMMA CallEnvsTyped == CallEnvs \subseteq Envs
<1>1. ASSUME NEW mode PROVE EnvOf(mode) \in Envs
  <2>1. (mode \in {"dev", "dev-imm"}) \in BOOLEAN /\ (mode \in {"imm", "dev-imm"}) \in BOOLEAN
    OBVIOUS
  <2>2. PICK dev \in BOOLEAN, imm \in BOOLEAN : EnvOf(mode) = [dev |-> dev, imm |-> imm]
    BY <2>1 DEF EnvOf
  <2> QED
    BY <2>2 DEF Envs
<1> QED
  BY <1>1 DEF CallEnvs

\* A proof of the guest, by whichever prover, and what is known of it.
LEMMA ProvedTyped ==
    ASSUME guestImm \in BOOLEAN,
           NEW prover \in {"cpu", "mock", "network"}, NEW kind \in Kind, NEW env \in Envs,
           NEW b \in Proved(prover, kind, env)
    PROVE  /\ b \in Bundles /\ b.by = prover /\ b.env = env
           /\ b.kind = IF kind = "CompressToGroth16" THEN "Groth16" ELSE kind
           /\ b.committed = HashOf("guest", guestImm)
           /\ b.pv \in {"guest", "mixedup"}
           /\ b.kind # "Groth16" => b.pv = "guest"
<1>1. PICK pv \in {"guest", "mixedup"} :
          /\ b = [NoProof EXCEPT !.kind = IF kind = "CompressToGroth16" THEN "Groth16" ELSE kind,
                     !.by = prover, !.env = env, !.pv = pv,
                     !.committed = HashOf("guest", guestImm)]
          /\ kind # "CompressToGroth16" => pv = "guest"
  BY DEF Proved
<1>2. b = [kind |-> IF kind = "CompressToGroth16" THEN "Groth16" ELSE kind,
           by |-> prover, env |-> env, pv |-> pv, committed |-> HashOf("guest", guestImm),
           vk |-> "none", key |-> None, vkeyHash |-> None]
  BY <1>1 DEF NoProof
<1>3. HashOf("guest", guestImm) \in {"guest", "mixedup"} \X BOOLEAN
  BY DEF HashOf
<1>4. b \in Bundles
  BY <1>2, <1>3 DEF Bundles, Kind
<1> QED
  BY <1>1, <1>2, <1>4

-----------------------------------------------------------------------------
(* What the others do leaves a call alone. *)

\* A step that gives one process a call in good order, and that forgets no proof,
\* leaves all calls in good order.
LEMMA CallsStay ==
    ASSUME ClientTypeOK, AtWork, NEW p \in Processes, NEW c \in Calls,
           call' = [call EXCEPT ![p] = c], CallOK(c)',
           proofs \subseteq proofs', guestImm' = guestImm
    PROVE  call' \in [Processes -> Calls] /\ AtWork'
<1>1. call' \in [Processes -> Calls]
  BY DEF ClientTypeOK
<1>2. ASSUME NEW q \in Processes PROVE CallOK(call[q])'
  <2>1. CASE q = p
    <3>1. call'[q] = c
      BY <2>1 DEF ClientTypeOK
    <3> QED
      BY <3>1 DEF CallOK, Wrapping, Verifying, Sound, DigestMatches, HashOf
  <2>2. CASE q # p
    <3>1. call'[q] = call[q]
      BY <2>2 DEF ClientTypeOK
    <3>2. CallOK(call[q])
      BY DEF AtWork
    <3>3. Wrapping(call[q]) => Wrapping(call[q])'
      BY <3>1 DEF Wrapping, Sound, DigestMatches, HashOf
    <3>4. Verifying(call[q]) => Verifying(call[q])'
      BY <3>1 DEF Verifying
    <3> QED
      BY <3>1, <3>2, <3>3, <3>4 DEF CallOK
  <2> QED
    BY <2>1, <2>2
<1> QED
  BY <1>1, <1>2 DEF AtWork

\* The rest of the state, when no directory changes.
Kept == UNCHANGED <<disk, builds, provingKey, guestImm>>

\* A call that ends without a result, whatever it was.
LEMMA FailsKeeps ==
    ASSUME ClientInv, NEW p \in Processes, NEW how \in AtRest, Fails(p, how),
           disk' = disk, builds' = builds, guestImm' = guestImm,
           provingKey' \in [Processes -> AnyCircuit \cup {None}]
    PROVE  ClientInv'
<1>1. At(how) \in Calls /\ At(how).pc = how
  BY AtTyped
<1>2. CallOK(At(how))'
  BY <1>1 DEF CallOK, AtRest, Installing, Building, At
<1>3. call' \in [Processes -> Calls] /\ AtWork'
  BY <1>1, <1>2, CallsStay DEF Fails, ClientInv
<1>4. ProofsAreSound'
  BY DEF ClientInv, ProofsAreSound, Fails, Sound, Wrapped, DigestMatches, HashOf
<1>5. ReleaseDirs'
  BY DEF ClientInv, ReleaseDirs
<1> QED
  BY <1>3, <1>4, <1>5 DEF ClientInv, ClientTypeOK, Fails

\* A call that returns a proof that is as it should be.
LEMMA ReturnsKeeps ==
    ASSUME ClientInv, NEW p \in Processes, NEW b \in Bundles, Returns(p, b), Kept,
           b.by = "cpu" => Sound(b) /\ (b.kind \in Snarks => Wrapped(b))
    PROVE  ClientInv'
<1>1. At("idle") \in Calls /\ At("idle").pc = "idle"
  BY AtTyped DEF AtRest
<1>2. CallOK(At("idle"))'
  BY <1>1 DEF CallOK, AtRest, Installing, Building, At
<1>3. call' \in [Processes -> Calls] /\ AtWork'
  BY <1>1, <1>2, CallsStay DEF Returns, ClientInv, Kept
<1>4. ProofsAreSound'
  BY DEF ClientInv, ProofsAreSound, Returns, Sound, Wrapped, DigestMatches, HashOf, Kept
<1>5. ReleaseDirs'
  BY DEF ClientInv, ReleaseDirs, Kept
<1> QED
  BY <1>3, <1>4, <1>5 DEF ClientInv, ClientTypeOK, Returns, Kept

\* A call that accepts a proof.
LEMMA AcceptsKeeps ==
    ASSUME ClientInv, NEW p \in Processes, Accepts(p), Kept
    PROVE  ClientInv'
<1>1. Fails(p, "idle") /\ "idle" \in AtRest
  BY DEF Accepts, Fails, AtRest
<1> QED
  BY <1>1, FailsKeeps DEF Kept, ClientInv, ClientTypeOK

\* A call that goes on with another record, on the same directories and proofs.
LEMMA GoesOn ==
    ASSUME ClientInv, NEW p \in Processes, NEW c \in Calls,
           call' = [call EXCEPT ![p] = c], CallOK(c), proofs' = proofs, guestImm' = guestImm
    PROVE  call' \in [Processes -> Calls] /\ AtWork' /\ ProofsAreSound'
<1>1. CallOK(c)'
  BY DEF CallOK, Wrapping, Verifying, Sound, DigestMatches, HashOf
<1>2. call' \in [Processes -> Calls] /\ AtWork'
  BY <1>1, CallsStay DEF ClientInv
<1>3. ProofsAreSound'
  BY DEF ClientInv, ProofsAreSound, Sound, Wrapped, DigestMatches, HashOf
<1> QED
  BY <1>2, <1>3

\* ... and the directories stay as they are.
LEMMA GoesOnKeeps ==
    ASSUME ClientInv, NEW p \in Processes, NEW c \in Calls,
           call' = [call EXCEPT ![p] = c], CallOK(c), proofs' = proofs, guestImm' = guestImm,
           disk' = disk, builds' = builds,
           provingKey' \in [Processes -> AnyCircuit \cup {None}]
    PROVE  ClientInv'
<1>1. call' \in [Processes -> Calls] /\ AtWork' /\ ProofsAreSound'
  BY GoesOn
<1>2. ReleaseDirs'
  BY DEF ClientInv, ReleaseDirs
<1> QED
  BY <1>1, <1>2 DEF ClientInv, ClientTypeOK

-----------------------------------------------------------------------------
(* The artifacts. *)

\* A call that goes to another place, and changes nothing else of itself.
LEMMA GotoMoves ==
    ASSUME ClientTypeOK, NEW p \in Processes, NEW pc \in Pcs, Goto(p, pc)
    PROVE  LET c == [call[p] EXCEPT !.pc = pc]
           IN  /\ c \in Calls /\ call' = [call EXCEPT ![p] = c]
               /\ c.pc = pc /\ c.use = call[p].use /\ c.bundle = call[p].bundle
               /\ c.type = call[p].type /\ c.env = call[p].env
<1>1. call[p] \in Calls
  BY DEF ClientTypeOK
<1> QED
  BY <1>1 DEF Goto, Calls, Pcs

\* A call about artifacts is about a directory of the machine.
LEMMA WorkDir ==
    ASSUME ClientInv, NEW p \in Processes, call[p].pc \notin AtNetwork \cup AtRest
    PROVE  /\ call[p].type \in Types /\ call[p].env \in Envs
           /\ DirOf(p) \in Dirs
           /\ Wrapping(call[p]) \/ Verifying(call[p])
<1>1. call[p].env \in Envs
  BY DEF ClientInv, ClientTypeOK, Calls
<1>2. Wrapping(call[p]) \/ Verifying(call[p])
  BY DEF ClientInv, AtWork, CallOK
<1>3. call[p].type \in Types
  BY <1>2 DEF Wrapping, Verifying, SnarkType, Types
<1> QED
  BY <1>1, <1>2, <1>3, DirTyped DEF DirOf

\* What may be written to a directory without harm.
Writable(p, r) ==
    /\ r \in Directories
    /\ r.state = "whole" /\ ~call[p].env.dev =>
           r.circuit = [imm |-> call[p].env.imm, key |-> ReleaseKey]
    /\ r.state = "whole" /\ call[p].env.dev => call[p].pc = "building"

\* Writing to the directory of a call leaves the release directories in order.
LEMMA WriteKeepsDirs ==
    ASSUME ClientInv, NEW p \in Processes, call[p].pc \notin AtNetwork \cup AtRest,
           NEW r, Writable(p, r), disk' = [disk EXCEPT ![DirOf(p)] = r]
    PROVE  disk' \in [Dirs -> Directories] /\ ReleaseDirs'
<1>1. call[p].type \in Types /\ call[p].env \in Envs /\ DirOf(p) \in Dirs
  BY WorkDir
<1>2. disk' \in [Dirs -> Directories]
  BY <1>1 DEF Writable, ClientInv, ClientTypeOK
<1>3. ASSUME NEW imm \in BOOLEAN, disk'[ReleaseDir("groth16", imm)].state = "whole"
      PROVE  disk'[ReleaseDir("groth16", imm)].circuit = [imm |-> imm, key |-> ReleaseKey]
  <2>1. /\ ReleaseDir("groth16", imm) \in Dirs
        /\ DirOf(p) = ReleaseDir("groth16", imm) => ~call[p].env.dev /\ call[p].env.imm = imm
    BY <1>1, DirsApart DEF DirOf
  <2>2. CASE DirOf(p) = ReleaseDir("groth16", imm)
    <3>1. disk'[ReleaseDir("groth16", imm)] = r
      BY <2>1, <2>2 DEF ClientInv, ClientTypeOK
    <3> QED
      BY <3>1, <2>1, <2>2, <1>3 DEF Writable
  <2>3. CASE DirOf(p) # ReleaseDir("groth16", imm)
    <3>1. disk'[ReleaseDir("groth16", imm)] = disk[ReleaseDir("groth16", imm)]
      BY <2>1, <2>3 DEF ClientInv, ClientTypeOK
    <3> QED
      BY <3>1, <1>3 DEF ClientInv, ReleaseDirs
  <2> QED
    BY <2>2, <2>3
<1> QED
  BY <1>2, <1>3 DEF ReleaseDirs

\* A call that writes to its directory and goes on.
LEMMA WriteKeeps ==
    ASSUME ClientInv, NEW p \in Processes, call[p].pc \notin AtNetwork \cup AtRest,
           NEW r, Writable(p, r), disk' = [disk EXCEPT ![DirOf(p)] = r],
           NEW pc \in Pcs, Goto(p, pc), CallOK([call[p] EXCEPT !.pc = pc]),
           builds' \in Nat, UNCHANGED <<provingKey, proofs, guestImm>>
    PROVE  ClientInv'
<1> DEFINE c == [call[p] EXCEPT !.pc = pc]
<1>1. c \in Calls /\ call' = [call EXCEPT ![p] = c]
  BY GotoMoves DEF ClientInv
<1>2. call' \in [Processes -> Calls] /\ AtWork' /\ ProofsAreSound'
  BY <1>1, GoesOn
<1>3. disk' \in [Dirs -> Directories] /\ ReleaseDirs'
  BY WriteKeepsDirs
<1> QED
  BY <1>2, <1>3 DEF ClientInv, ClientTypeOK

\* A call that goes on without writing.
LEMMA MoveKeeps ==
    ASSUME ClientInv, NEW p \in Processes, NEW pc \in Pcs, Goto(p, pc),
           CallOK([call[p] EXCEPT !.pc = pc]), UNCHANGED <<artifactVars, proofs, guestImm>>
    PROVE  ClientInv'
<1> DEFINE c == [call[p] EXCEPT !.pc = pc]
<1>1. c \in Calls /\ call' = [call EXCEPT ![p] = c]
  BY GotoMoves DEF ClientInv
<1> QED
  BY <1>1, GoesOnKeeps DEF artifactVars, ClientInv, ClientTypeOK

\* From one place of the installation to the next, or to the use of what is there.
LEMMA NextPlace ==
    ASSUME ClientInv, NEW p \in Processes, call[p].pc \in Installing,
           NEW pc \in Installing \cup {call[p].use}
    PROVE  pc \in Pcs /\ CallOK([call[p] EXCEPT !.pc = pc])
<1> DEFINE c == [call[p] EXCEPT !.pc = pc]
<1>1. call[p] \in Calls
  BY DEF ClientInv, ClientTypeOK
<1>2. /\ c.pc = pc /\ c.use = call[p].use /\ c.bundle = call[p].bundle
      /\ c.type = call[p].type /\ c.env = call[p].env
  BY <1>1 DEF Calls, Pcs
<1>3. ~call[p].env.dev /\ (Wrapping(call[p]) \/ Verifying(call[p]))
  BY DEF ClientInv, AtWork, CallOK, Installing, AtNetwork, AtRest
<1>4. CASE Wrapping(call[p])
  <2>1. pc \in Installing \cup {"wrap"}
    BY <1>4 DEF Wrapping
  <2>2. Wrapping(c)
    BY <2>1, <1>2, <1>4 DEF Wrapping, Installing
  <2>3. pc \notin Building
    BY <2>1 DEF Installing, Building
  <2> QED
    BY <2>1, <2>2, <2>3, <1>2, <1>3 DEF CallOK, Pcs
<1>5. CASE Verifying(call[p])
  <2>1. pc \in Installing \cup {"verifysnark"}
    BY <1>5 DEF Verifying
  <2>2. Verifying(c)
    BY <2>1, <1>2, <1>5 DEF Verifying, Installing
  <2>3. pc \notin Building
    BY <2>1 DEF Installing, Building
  <2> QED
    BY <2>1, <2>2, <2>3, <1>2, <1>3 DEF CallOK, Pcs
<1> QED
  BY <1>3, <1>4, <1>5

\* To rest, from anywhere.
LEMMA ToRest ==
    ASSUME ClientInv, NEW p \in Processes, NEW pc \in AtRest
    PROVE  pc \in Pcs /\ CallOK([call[p] EXCEPT !.pc = pc])
<1>1. call[p] \in Calls
  BY DEF ClientInv, ClientTypeOK
<1>2. [call[p] EXCEPT !.pc = pc].pc = pc
  BY <1>1 DEF Calls, Pcs
<1> QED
  BY <1>2 DEF Pcs, CallOK, AtRest, Installing, Building

\* From one place of the network's client to the next.
LEMMA ToNetwork ==
    ASSUME ClientInv, NEW p \in Processes, NEW pc \in AtNetwork
    PROVE  pc \in Pcs /\ CallOK([call[p] EXCEPT !.pc = pc])
<1>1. call[p] \in Calls
  BY DEF ClientInv, ClientTypeOK
<1>2. [call[p] EXCEPT !.pc = pc].pc = pc
  BY <1>1 DEF Calls, Pcs
<1> QED
  BY <1>2 DEF Pcs, CallOK, AtNetwork, Installing, Building

\* try_install_circuit_artifacts and what it calls.
LEMMA InstallKeeps ==
    ASSUME ClientInv, NEW p \in Processes, UNCHANGED <<guestImm, proofs>>,
           CheckInstalled(p) \/ CreateDir(p) \/ Download(p) \/ Unpack(p) \/ Unpacked(p)
    PROVE  ClientInv'
<1>1. call[p] \in Calls
  BY DEF ClientInv, ClientTypeOK
<1>2. call[p].pc \in Installing
  BY DEF Installing, CheckInstalled, CreateDir, Download, Unpack, Unpacked
<1>3. call[p].pc \notin AtNetwork \cup AtRest
  BY <1>2 DEF Installing, AtNetwork, AtRest
<1>4. ~call[p].env.dev /\ DirOf(p) \in Dirs /\ call[p].env \in Envs
  BY <1>2, <1>3, WorkDir DEF ClientInv, AtWork, CallOK
<1>5. Writable(p, Partial)
  BY DEF Writable, Partial, Directories
<1>6. CASE CheckInstalled(p)
  <2>1. PICK pc \in Installing \cup {call[p].use} : Goto(p, pc)
    BY <1>6 DEF CheckInstalled, Installing
  <2>2. pc \in Pcs /\ CallOK([call[p] EXCEPT !.pc = pc])
    BY <1>2, NextPlace
  <2> QED
    BY <1>6, <2>1, <2>2, MoveKeeps DEF CheckInstalled
<1>7. CASE CreateDir(p)
  <2>1. Goto(p, "download") /\ "download" \in Installing
    BY <1>7 DEF CreateDir, Installing
  <2>2. "download" \in Pcs /\ CallOK([call[p] EXCEPT !.pc = "download"])
    BY <1>2, <2>1, NextPlace
  <2>3. CASE disk[DirOf(p)] = Absent
    <3>1. disk' = [disk EXCEPT ![DirOf(p)] = Partial]
      BY <1>7, <2>3 DEF CreateDir
    <3> QED
      BY <1>3, <1>5, <1>7, <2>1, <2>2, <3>1, WriteKeeps DEF CreateDir, ClientInv, ClientTypeOK
  <2>4. CASE disk[DirOf(p)] # Absent
    <3>1. disk' = disk
      BY <1>7, <2>4 DEF CreateDir, ClientInv, ClientTypeOK
    <3> QED
      BY <1>7, <2>1, <2>2, <3>1, MoveKeeps DEF CreateDir, artifactVars
  <2> QED
    BY <2>3, <2>4
<1>8. CASE Download(p)
  <2>1. CASE Goto(p, "unpack")
    <3>1. "unpack" \in Installing
      BY DEF Installing
    <3>2. "unpack" \in Pcs /\ CallOK([call[p] EXCEPT !.pc = "unpack"])
      BY <1>2, <3>1, NextPlace
    <3> QED
      BY <1>8, <2>1, <3>2, MoveKeeps DEF Download
  <2>2. CASE Goto(p, "panicked")
    <3>1. "panicked" \in Pcs /\ CallOK([call[p] EXCEPT !.pc = "panicked"])
      BY ToRest DEF AtRest
    <3> QED
      BY <1>8, <2>2, <3>1, MoveKeeps DEF Download
  <2> QED
    BY <1>8, <2>1, <2>2 DEF Download
<1>9. CASE Unpack(p)
  <2>1. Goto(p, "unpacking") /\ "unpacking" \in Installing
    BY <1>9 DEF Unpack, Installing
  <2>2. "unpacking" \in Pcs /\ CallOK([call[p] EXCEPT !.pc = "unpacking"])
    BY <1>2, <2>1, NextPlace
  <2> QED
    BY <1>3, <1>5, <1>9, <2>1, <2>2, WriteKeeps DEF Unpack, ClientInv, ClientTypeOK
<1>10. CASE Unpacked(p)
  <2>1. PICK r \in {Partial, Whole([imm |-> call[p].env.imm, key |-> ReleaseKey])} :
            disk' = [disk EXCEPT ![DirOf(p)] = r]
    BY <1>10 DEF Unpacked
  <2>2. call[p].env.imm \in BOOLEAN
    BY <1>4 DEF Envs
  <2>3. [imm |-> call[p].env.imm, key |-> ReleaseKey] \in AnyCircuit
    BY <2>2 DEF AnyCircuit, ReleaseKey
  <2>4. Writable(p, Whole([imm |-> call[p].env.imm, key |-> ReleaseKey]))
    BY <1>4, <2>3 DEF Writable, Whole, Directories
  <2>5. Writable(p, r)
    BY <1>5, <2>1, <2>4
  <2>6. Goto(p, call[p].use)
    BY <1>10 DEF Unpacked
  <2>7. call[p].use \in Pcs /\ CallOK([call[p] EXCEPT !.pc = call[p].use])
    BY <1>2, NextPlace
  <2> QED
    BY <1>3, <1>10, <2>1, <2>5, <2>6, <2>7, WriteKeeps DEF Unpacked, ClientInv, ClientTypeOK
<1> QED
  BY <1>6, <1>7, <1>8, <1>9, <1>10

\* The build of the development mode.
LEMMA BuildKeeps ==
    ASSUME ClientInv, NEW p \in Processes, UNCHANGED <<guestImm, proofs>>,
           BuildDev(p) \/ BuiltDev(p)
    PROVE  ClientInv'
<1>1. call[p] \in Calls
  BY DEF ClientInv, ClientTypeOK
<1>2. call[p].pc \in Building
  BY DEF Building, BuildDev, BuiltDev
<1>3. call[p].pc \notin AtNetwork \cup AtRest
  BY <1>2 DEF Building, AtNetwork, AtRest
<1>4. call[p].env.dev /\ DirOf(p) \in Dirs /\ call[p].env \in Envs
  BY <1>2, <1>3, WorkDir DEF ClientInv, AtWork, CallOK
<1>5. Wrapping(call[p])
  BY <1>2, <1>3, WorkDir DEF Verifying, Building, Installing
<1>6. ASSUME NEW pc \in {"building", "wrap"}
      PROVE  pc \in Pcs /\ CallOK([call[p] EXCEPT !.pc = pc])
  <2> DEFINE c == [call[p] EXCEPT !.pc = pc]
  <2>1. /\ c.pc = pc /\ c.use = call[p].use /\ c.bundle = call[p].bundle
        /\ c.type = call[p].type /\ c.env = call[p].env
    BY <1>1 DEF Calls, Pcs
  <2>2. Wrapping(c)
    BY <2>1, <1>5 DEF Wrapping, Building
  <2> QED
    BY <2>1, <2>2, <1>4 DEF CallOK, Pcs, Installing, Building
<1>7. CASE BuildDev(p)
  <2>1. Writable(p, Partial)
    BY DEF Writable, Partial, Directories
  <2> QED
    BY <1>3, <1>6, <1>7, <2>1, WriteKeeps DEF BuildDev, ClientInv, ClientTypeOK
<1>8. CASE BuiltDev(p)
  <2> DEFINE r == Whole([imm |-> call[p].env.imm, key |-> builds + 1])
  <2>1. call[p].env.imm \in BOOLEAN /\ builds + 1 \in Nat
    BY <1>4 DEF Envs, ClientInv, ClientTypeOK
  <2>2. Writable(p, r)
    BY <1>4, <1>8, <2>1 DEF Writable, Whole, Directories, AnyCircuit, BuiltDev
  <2>3. disk' = [disk EXCEPT ![DirOf(p)] = r] /\ builds' \in Nat /\ Goto(p, "wrap")
    BY <1>8, <2>1 DEF BuiltDev
  <2>4. UNCHANGED provingKey
    BY <1>8 DEF BuiltDev
  <2> HIDE DEF r
  <2> QED
    BY <1>3, <1>6, <2>2, <2>3, <2>4, WriteKeeps
<1> QED
  BY <1>7, <1>8

\* The snark: what comes out is of this environment, with the key that was used.
LEMMA WrapKeeps ==
    ASSUME ClientInv, NEW p \in Processes, UNCHANGED <<guestImm, proofs>>, Wrap(p)
    PROVE  ClientInv'
<1>1. call[p] \in Calls /\ call[p].bundle \in Bundles /\ call[p].env \in Envs
  BY DEF ClientInv, ClientTypeOK, Calls
<1>2. call[p].pc = "wrap"
  BY DEF Wrap
<1>3. call[p].pc \notin AtNetwork \cup AtRest \cup Installing \cup Building
  BY <1>2 DEF Building, Installing, AtNetwork, AtRest
<1>4. DirOf(p) \in Dirs /\ Wrapping(call[p]) /\ call[p].type \in Types
  BY <1>2, <1>3, WorkDir DEF Verifying, Installing
<1> DEFINE k == KeyFor(p)
           hash == VkHash(call[p].type, call[p].env.imm)
           d == disk[DirOf(p)].circuit
           w == [call[p].bundle EXCEPT !.key = k, !.vkeyHash = d, !.vk = hash]
           c == [call[p] EXCEPT !.pc = "selfverify", !.bundle = w]
<1>5. d \in AnyCircuit \cup {None} /\ k \in AnyCircuit \cup {None}
  BY <1>4 DEF KeyFor, ClientInv, ClientTypeOK, Directories
<1>6. hash \in {"plain", "combined"}
  BY DEF VkHash
<1>7. CASE k # None /\ k.imm = (hash = "combined")
  <2>1. call' = [call EXCEPT ![p] = c]
    BY <1>7 DEF Wrap
  <2>2. /\ provingKey' \in [Processes -> AnyCircuit \cup {None}]
        /\ disk' = disk /\ builds' = builds
    BY <1>5, <1>7 DEF Wrap, ClientInv, ClientTypeOK
  <2> HIDE DEF k, hash, d
  <2>3. /\ w \in Bundles /\ w.vk = hash /\ w.kind = call[p].bundle.kind
        /\ w.by = call[p].bundle.by /\ w.env = call[p].bundle.env
        /\ w.pv = call[p].bundle.pv /\ w.committed = call[p].bundle.committed
    BY <1>1, <1>5, <1>6 DEF Bundles
  <2> HIDE DEF w
  <2>4. /\ c \in Calls /\ c.pc = "selfverify" /\ c.bundle = w /\ c.use = call[p].use
        /\ c.type = call[p].type /\ c.env = call[p].env
    BY <1>1, <2>3 DEF Calls, Pcs
  <2> HIDE DEF c
  <2>5. Sound(w) /\ w.kind \in Snarks
    BY <1>4, <2>3 DEF Wrapping, Sound, DigestMatches, HashOf
  <2>6. w.vk = VkHash(call[p].type, call[p].env.imm)
    BY <2>3 DEF hash
  <2>7. Wrapping(c)
    BY <1>4, <2>3, <2>4, <2>5, <2>6 DEF Wrapping
  <2>8. CallOK(c)
    BY <2>4, <2>7 DEF CallOK, Installing, Building
  <2> QED
    BY <2>1, <2>2, <2>4, <2>8, GoesOnKeeps
<1>8. CASE ~(k # None /\ k.imm = (hash = "combined"))
  <2>1. /\ Goto(p, "panicked") /\ disk' = disk /\ builds' = builds
        /\ provingKey' \in [Processes -> AnyCircuit \cup {None}]
    BY <1>8 DEF Wrap, ClientInv, ClientTypeOK
  <2>2. "panicked" \in Pcs /\ CallOK([call[p] EXCEPT !.pc = "panicked"])
    BY ToRest DEF AtRest
  <2>3. /\ [call[p] EXCEPT !.pc = "panicked"] \in Calls
        /\ call' = [call EXCEPT ![p] = [call[p] EXCEPT !.pc = "panicked"]]
    BY <2>1, <2>2, GotoMoves DEF ClientInv
  <2> QED
    BY <2>1, <2>2, <2>3, GoesOnKeeps
<1> QED
  BY <1>7, <1>8

-----------------------------------------------------------------------------
(* The calls. *)

\* The steps of the network's client touch no proof and no directory.
LEMMA NetworkKeeps ==
    ASSUME ClientInv, NEW p \in Processes, UNCHANGED <<guestImm, proofs>>, NetworkSteps(p)
    PROVE  ClientInv'
<1>1. PICK pc \in AtNetwork \cup AtRest : Goto(p, pc) /\ UNCHANGED artifactVars
  BY DEF NetworkSteps, RequestProof, Connect, AskStatus, Wake, Fetch, AnswerComputing,
         AnswerSuccess, AnswerError, AtNetwork, AtRest
<1>2. pc \in Pcs /\ CallOK([call[p] EXCEPT !.pc = pc])
  BY ToRest, ToNetwork
<1> QED
  BY <1>1, <1>2, MoveKeeps

\* What prove makes of the kinds it is asked for.
LEMMA KindsTyped == Kinds \subseteq Kind \ {"none"}
BY ClientAssumption DEF Kind

\* prove, up to the snark.
LEMMA ProveStarkKeeps ==
    ASSUME ClientInv, NEW p \in Processes, ProveStark(p)
    PROVE  ClientInv'
<1>1. guestImm \in BOOLEAN /\ Kept
  BY DEF ClientInv, ClientTypeOK, ProveStark, StartCall, artifactVars, Kept
<1>2. /\ provingKey' \in [Processes -> AnyCircuit \cup {None}]
      /\ disk' = disk /\ builds' = builds /\ guestImm' = guestImm
  BY <1>1 DEF Kept, ClientInv, ClientTypeOK
<1> DEFINE begun(kind, env, b) ==
               [pc |-> IF env.dev THEN "build" ELSE "check", prover |-> "cpu",
                kind |-> kind, type |-> SnarkType(kind), env |-> env,
                use |-> "wrap", bundle |-> b]
           ends(kind, env, b) ==
               \/ \E how \in AtRest : Fails(p, how)
               \/ kind \in {"Core", "Compressed", "DvSnark"} /\ Returns(p, b)
               \/ /\ kind \in {"Plonk", "Groth16", "CompressToGroth16"}
                  /\ DigestMatches(b, env)
                  /\ call' = [call EXCEPT ![p] = begun(kind, env, b)]
                  /\ UNCHANGED proofs
<1>3. \E kind \in Kinds, env \in CallEnvs : \E b \in Proved("cpu", kind, env) : ends(kind, env, b)
  BY DEF ProveStark, AtRest
<1> HIDE DEF ends
<1>4. PICK kind \in Kinds, env \in CallEnvs : \E b \in Proved("cpu", kind, env) : ends(kind, env, b)
  BY <1>3
<1>5. PICK b \in Proved("cpu", kind, env) : ends(kind, env, b)
  BY <1>4
<1>6. kind \in Kind \ {"none"} /\ env \in Envs
  BY KindsTyped, CallEnvsTyped
<1>7. /\ b \in Bundles /\ b.by = "cpu" /\ b.env = env
      /\ b.kind = IF kind = "CompressToGroth16" THEN "Groth16" ELSE kind
      /\ b.committed = HashOf("guest", guestImm)
      /\ b.pv \in {"guest", "mixedup"}
      /\ b.kind # "Groth16" => b.pv = "guest"
  BY <1>1, <1>6, ProvedTyped
<1>8. CASE \E how \in AtRest : Fails(p, how)
  BY <1>2, <1>8, FailsKeeps
<1>9. CASE kind \in {"Core", "Compressed", "DvSnark"} /\ Returns(p, b)
  <2>1. Sound(b) /\ b.kind \notin Snarks
    BY <1>7, <1>9 DEF Sound, Snarks
  <2> QED
    BY <1>1, <1>7, <1>9, <2>1, ReturnsKeeps
<1>10. CASE /\ kind \in {"Plonk", "Groth16", "CompressToGroth16"}
           /\ DigestMatches(b, env)
           /\ call' = [call EXCEPT ![p] = begun(kind, env, b)]
           /\ UNCHANGED proofs
  <2> DEFINE c == begun(kind, env, b)
  <2>1. c \in Calls
    BY <1>6, <1>7 DEF Calls, Pcs, Installing, Building, SnarkType, Types
  <2>2. /\ c.pc = (IF env.dev THEN "build" ELSE "check") /\ c.type = SnarkType(kind)
        /\ c.env = env /\ c.use = "wrap" /\ c.bundle = b
    OBVIOUS
  <2>3. call' = [call EXCEPT ![p] = c] /\ proofs' = proofs
    BY <1>10
  <2> HIDE DEF c
  <2>4. Sound(b) /\ b.kind \in Snarks
    BY <1>7, <1>10 DEF Sound, Snarks
  <2>5. SnarkType(kind) = SnarkType(b.kind)
    BY <1>7, <1>10 DEF SnarkType
  <2>6. Wrapping(c)
    BY <1>7, <2>2, <2>4, <2>5 DEF Wrapping, Installing, Building
  <2>7. CallOK(c)
    BY <2>2, <2>6 DEF CallOK, Installing, Building
  <2> QED
    BY <1>2, <2>1, <2>3, <2>7, GoesOnKeeps
<1> QED
  BY <1>5, <1>8, <1>9, <1>10 DEF ends

\* A snark is returned when it verifies: it is of the circuit on disk.
LEMMA SelfVerifyKeeps ==
    ASSUME ClientInv, NEW p \in Processes, SelfVerify(p)
    PROVE  ClientInv'
<1> DEFINE b == call[p].bundle
<1>1. Kept
  BY DEF SelfVerify, Kept, artifactVars
<1>2. call[p].pc = "selfverify"
  BY DEF SelfVerify
<1>3. call[p].pc \notin AtNetwork \cup AtRest \cup Installing
  BY <1>2 DEF Installing, AtNetwork, AtRest
<1>4. Wrapping(call[p]) /\ DirOf(p) \in Dirs /\ call[p].env \in Envs
  BY <1>2, <1>3, WorkDir DEF Verifying
<1>5. b \in Bundles
  BY DEF ClientInv, ClientTypeOK, Calls
<1>6. CASE Verifies(b, DirOf(p)) /\ Returns(p, b)
  <2>1. /\ b.by = "cpu" /\ Sound(b) /\ b.vkeyHash = b.key /\ b.env = call[p].env
        /\ call[p].type = SnarkType(b.kind)
        /\ b.vk = VkHash(SnarkType(b.kind), b.env.imm)
    BY <1>2, <1>4, <1>6 DEF Wrapping, Verifies
  <2>2. ASSUME b.kind = "Groth16", ~b.env.dev
        PROVE  b.key = [imm |-> b.env.imm, key |-> ReleaseKey]
    <3>1. DirOf(p) = ReleaseDir("groth16", b.env.imm)
      BY <2>1, <2>2 DEF DirOf, ArtifactsDir, SnarkType
    <3>2. b.env.imm \in BOOLEAN
      BY <1>4, <2>1 DEF Envs
    <3> QED
      BY <1>6, <3>1, <3>2 DEF Verifies, ClientInv, ReleaseDirs
  <2>3. Wrapped(b)
    BY <2>1, <2>2 DEF Wrapped
  <2> HIDE DEF b
  <2> QED
    BY <1>1, <1>5, <1>6, <2>1, <2>3, ReturnsKeeps
<1>7. CASE Fails(p, "panicked")
  BY <1>1, <1>7, FailsKeeps DEF Kept, ClientInv, ClientTypeOK, AtRest
<1> QED
  BY <1>6, <1>7 DEF SelfVerify

\* The mock prover's proofs are told from the others by their prover.
LEMMA MockProveKeeps ==
    ASSUME ClientInv, NEW p \in Processes, MockProve(p)
    PROVE  ClientInv'
<1>1. guestImm \in BOOLEAN /\ Kept
  BY DEF ClientInv, ClientTypeOK, MockProve, StartCall, artifactVars, Kept
<1> DEFINE mocked(env, b) == [b EXCEPT !.vk = "plain", !.committed = HashOf(b.pv, env.imm)]
           ends(env, b) == (\E how \in AtRest : Fails(p, how)) \/ Returns(p, mocked(env, b))
<1>2. PICK kind \in Kinds, env \in CallEnvs : \E b \in Proved("mock", kind, env) : ends(env, b)
  BY DEF MockProve, AtRest
<1>3. PICK b \in Proved("mock", kind, env) : ends(env, b)
  BY <1>2
<1>4. kind \in Kind \ {"none"} /\ env \in Envs
  BY KindsTyped, CallEnvsTyped
<1>5. b \in Bundles /\ b.by = "mock" /\ b.pv \in {"guest", "mixedup"}
  BY <1>1, <1>4, ProvedTyped
<1> DEFINE m == mocked(env, b)
<1>6. HashOf(b.pv, env.imm) \in {"guest", "mixedup"} \X BOOLEAN
  BY <1>4, <1>5 DEF HashOf, Envs
<1>7. m \in Bundles /\ m.by = "mock"
  BY <1>5, <1>6 DEF Bundles
<1>8. CASE Returns(p, m)
  <2> HIDE DEF m
  <2> QED
    BY <1>1, <1>7, <1>8, ReturnsKeeps
<1>9. CASE \E how \in AtRest : Fails(p, how)
  BY <1>1, <1>9, FailsKeeps DEF Kept, ClientInv, ClientTypeOK
<1> QED
  BY <1>3, <1>8, <1>9

\* A call to the network begins.
LEMMA NetworkProveKeeps ==
    ASSUME ClientInv, NEW p \in Processes, NetworkProve(p)
    PROVE  ClientInv'
<1>1. Kept /\ proofs' = proofs
  BY DEF NetworkProve, StartCall, artifactVars, Kept
<1>2. PICK kind \in Kinds :
          call' = [call EXCEPT ![p] = [At("request") EXCEPT !.prover = "network", !.kind = kind]]
  BY DEF NetworkProve
<1>3. kind \in Kind
  BY KindsTyped
<1>4. At("request") \in Calls /\ At("request").pc = "request"
  BY AtTyped DEF AtNetwork
<1> DEFINE c == [At("request") EXCEPT !.prover = "network", !.kind = kind]
<1>5. c \in Calls /\ c.pc = "request"
  BY <1>3, <1>4 DEF Calls, Pcs
<1>6. call' = [call EXCEPT ![p] = c]
  BY <1>2
<1> HIDE DEF c
<1>7. CallOK(c)
  BY <1>5 DEF CallOK, AtNetwork, Installing, Building
<1> QED
  BY <1>1, <1>5, <1>6, <1>7, GoesOnKeeps DEF Kept, ClientInv, ClientTypeOK

\* The network's proofs are told from the others by their prover.
LEMMA NetworkReturnsKeeps ==
    ASSUME ClientInv, NEW p \in Processes, NetworkReturns(p)
    PROVE  ClientInv'
<1>1. guestImm \in BOOLEAN /\ Kept
  BY DEF ClientInv, ClientTypeOK, NetworkReturns, artifactVars, Kept
<1> DEFINE made(imm, b) ==
               IF b.kind # "Groth16" THEN b
               ELSE [b EXCEPT !.key = [imm |-> imm, key |-> ReleaseKey],
                              !.vkeyHash = [imm |-> imm, key |-> ReleaseKey],
                              !.vk = VkHash("groth16", imm)]
           proved(imm) == Proved("network", call[p].kind, [dev |-> FALSE, imm |-> imm])
<1>2. PICK imm \in BOOLEAN : \E b \in proved(imm) : Returns(p, made(imm, b))
  BY DEF NetworkReturns
<1>3. PICK b \in proved(imm) : Returns(p, made(imm, b))
  BY <1>2
<1>4. call[p].kind \in Kind /\ [dev |-> FALSE, imm |-> imm] \in Envs
  BY DEF ClientInv, ClientTypeOK, Calls, Envs
<1>5. b \in Bundles /\ b.by = "network"
  BY <1>1, <1>4, ProvedTyped
<1> DEFINE key == [imm |-> imm, key |-> ReleaseKey]
           hash == VkHash("groth16", imm)
           n == [b EXCEPT !.key = key, !.vkeyHash = key, !.vk = hash]
<1>6. key \in AnyCircuit /\ hash \in {"plain", "combined"}
  BY DEF AnyCircuit, ReleaseKey, VkHash
<1>7. Returns(p, b) \/ Returns(p, n)
  BY <1>3
<1> HIDE DEF key, hash
<1>8. n \in Bundles /\ n.by = "network"
  BY <1>5, <1>6 DEF Bundles
<1> HIDE DEF n
<1> QED
  BY <1>1, <1>5, <1>7, <1>8, ReturnsKeeps

\* verify begins with a proof that was returned.
LEMMA VerifyKeeps ==
    ASSUME ClientInv, NEW p \in Processes, Verify(p)
    PROVE  ClientInv'
<1>1. Kept /\ proofs' = proofs
  BY DEF Verify, StartCall, artifactVars, Kept
<1>2. PICK b \in proofs, env \in CallEnvs :
          call' = [call EXCEPT ![p] =
              [At(IF b.kind \notin {"Plonk", "Groth16"} THEN "verifystark"
                     ELSE IF env.dev THEN "verifysnark" ELSE "check") EXCEPT
                 !.prover = "cpu", !.type = SnarkType(b.kind), !.env = env,
                 !.use = "verifysnark", !.bundle = b]]
  BY DEF Verify
<1> DEFINE pc == IF b.kind \notin {"Plonk", "Groth16"} THEN "verifystark"
                 ELSE IF env.dev THEN "verifysnark" ELSE "check"
           type == SnarkType(b.kind)
           c == [At(pc) EXCEPT !.prover = "cpu", !.type = type, !.env = env,
                               !.use = "verifysnark", !.bundle = b]
<1>3. call' = [call EXCEPT ![p] = c]
  BY <1>2
<1>4. env \in Envs /\ b \in Bundles /\ NoEnv \in Envs
  BY CallEnvsTyped DEF ClientInv, ClientTypeOK, NoEnv, Envs
<1>5. NoProof \in Bundles
  BY <1>4 DEF NoProof, Bundles, Kind
<1>6. pc \in {"verifystark", "verifysnark", "check"} /\ type \in Types
  BY DEF SnarkType, Types
<1> HIDE DEF pc, type
<1>7. At(pc) \in Calls /\ At(pc).pc = pc
  BY <1>4, <1>5, <1>6 DEF At, Calls, Pcs, Kind, Installing
<1>8. c \in Calls
  BY <1>4, <1>6, <1>7 DEF Calls, Pcs
<1>9. /\ c.pc = pc /\ c.type = type /\ c.env = env
      /\ c.use = "verifysnark" /\ c.bundle = b
  BY <1>4, <1>6, <1>7 DEF Calls, Pcs
<1> USE DEF pc, type
<1> HIDE DEF c
<1>10. Verifying(c)
  BY <1>9 DEF Verifying, Installing, Snarks
<1>11. CallOK(c)
  BY <1>9, <1>10 DEF CallOK, Installing, Building
<1> QED
  BY <1>1, <1>3, <1>8, <1>11, GoesOnKeeps DEF Kept, ClientInv, ClientTypeOK

\* What ends without a result: verify, an error that the caller gets, a crash.
LEMMA EndKeeps ==
    ASSUME ClientInv, NEW p \in Processes,
           MockVerify(p) \/ VerifyStark(p) \/ VerifySnark(p) \/ GiveUp(p) \/ Crash(p)
    PROVE  ClientInv'
<1>1. \E how \in AtRest : Fails(p, how)
  BY DEF MockVerify, VerifyStark, VerifySnark, GiveUp, Crash, Accepts, Fails, AtRest
<1>2. /\ provingKey' \in [Processes -> AnyCircuit \cup {None}]
      /\ disk' = disk /\ builds' = builds /\ guestImm' = guestImm
  BY DEF MockVerify, StartCall, VerifyStark, VerifySnark, GiveUp, Crash, artifactVars,
         ClientInv, ClientTypeOK
<1> QED
  BY <1>1, <1>2, FailsKeeps

-----------------------------------------------------------------------------
(* The theorems. *)

\* No call is made yet, and nothing is installed.
LEMMA ClientInit == Init => ClientInv
<1> SUFFICES ASSUME Init PROVE ClientInv
  OBVIOUS
<1>1. At("idle") \in Calls /\ CallOK(At("idle"))
  BY AtTyped DEF AtRest
<1>2. Absent \in Directories /\ Absent.state # "whole"
  BY DEF Absent, Directories
<1>3. ClientTypeOK /\ ProofsAreSound
  BY <1>1, <1>2 DEF ClientTypeOK, Init, ArtifactsInit, ProofsAreSound
<1>4. AtWork
  BY <1>1 DEF AtWork, Init
<1>5. ReleaseDirs
  <2>1. ASSUME NEW imm \in BOOLEAN PROVE ReleaseDir("groth16", imm) \in Dirs
    <3>1. "none" \in {"none"} \cup Types /\ [dev |-> FALSE, imm |-> imm] \in Envs
      BY DEF Envs
    <3> QED
      BY <3>1, DirsApart
  <2>2. ASSUME NEW imm \in BOOLEAN PROVE disk[ReleaseDir("groth16", imm)] = Absent
    BY <2>1 DEF Init, ArtifactsInit
  <2> QED
    BY <1>2, <2>2 DEF ReleaseDirs
<1> QED
  BY <1>3, <1>4, <1>5 DEF ClientInv

\* The invariant looks at neither the wait for the network nor the count of calls.
LEMMA ClientStutters ==
    ASSUME ClientInv, UNCHANGED <<artifactVars, call, guestImm, proofs>>
    PROVE  ClientInv'
<1> USE DEF artifactVars
<1>1. ClientTypeOK'
  BY DEF ClientInv, ClientTypeOK
<1>2. ProofsAreSound'
  BY DEF ClientInv, ProofsAreSound, Sound, Wrapped, DigestMatches, HashOf
<1>3. ASSUME NEW p \in Processes PROVE CallOK(call[p])'
  <2>1. CallOK(call[p])
    BY DEF ClientInv, AtWork
  <2> QED
    BY <2>1 DEF CallOK, Wrapping, Verifying, Sound, DigestMatches, HashOf
<1>4. ReleaseDirs'
  BY DEF ClientInv, ReleaseDirs
<1> QED
  BY <1>1, <1>2, <1>3, <1>4 DEF ClientInv, AtWork

\* One step per action.
LEMMA ClientNext == ClientInv /\ [Next]_vars => ClientInv'
<1> SUFFICES ASSUME ClientInv, [Next]_vars PROVE ClientInv'
  OBVIOUS
<1>1. CASE UNCHANGED vars
  BY <1>1, ClientStutters DEF vars
<1>2. CASE TimePasses
  BY <1>2, ClientStutters DEF TimePasses, Tick
<1>3. ASSUME NEW p \in Processes,
             ProveStark(p) \/ MockProve(p) \/ NetworkProve(p) \/ MockVerify(p) \/ Verify(p)
      PROVE  ClientInv'
  BY <1>3, ProveStarkKeeps, MockProveKeeps, NetworkProveKeeps, EndKeeps, VerifyKeeps
<1>4. ASSUME NEW p \in Processes, Crash(p) PROVE ClientInv'
  BY <1>4, EndKeeps
<1>5. ASSUME NEW p \in Processes, JobEnds(p), UNCHANGED <<guestImm, proofs, calls>>
      PROVE  ClientInv'
  BY <1>5, ClientStutters DEF JobEnds
<1>6. ASSUME NEW p \in Processes, Step(p) PROVE ClientInv'
  <2>1. CASE SelfVerify(p) \/ NetworkReturns(p)
    BY <2>1, SelfVerifyKeeps, NetworkReturnsKeeps
  <2>2. CASE VerifyStark(p) \/ VerifySnark(p) \/ GiveUp(p)
    BY <2>2, EndKeeps
  <2>3. CASE ArtifactSteps(p) /\ UNCHANGED <<net, guestImm, proofs, calls>>
    BY <2>3, InstallKeeps, BuildKeeps, WrapKeeps DEF ArtifactSteps
  <2>4. CASE NetworkSteps(p) /\ UNCHANGED <<guestImm, proofs, calls>>
    BY <2>4, NetworkKeeps
  <2> QED
    BY <1>6, <2>1, <2>2, <2>3, <2>4 DEF Step
<1> QED
  BY <1>1, <1>2, <1>3, <1>4, <1>5, <1>6 DEF Next

\* A rejection is a step of the verification itself.
LEMMA RejectionIsVerification ==
    ASSUME ClientInv, [Next]_vars, NEW p \in Processes, Rejects(p)
    PROVE  VerifyStark(p) \/ VerifySnark(p)
<1>1. call[p].pc \in {"verifystark", "verifysnark"} /\ call'[p].pc = "failed"
  BY DEF Rejects
<1>2. call' # call
  BY <1>1
<1>3. PICK q \in Processes :
         \/ ProveStark(q) \/ MockProve(q) \/ NetworkProve(q) \/ MockVerify(q) \/ Verify(q)
         \/ Step(q) \/ Crash(q)
  BY <1>2 DEF Next, vars, TimePasses, Tick, JobEnds
<1>4. call \in [Processes -> Calls]
  BY DEF ClientInv, ClientTypeOK
<1>5. \E c : call' = [call EXCEPT ![q] = c]
  <2>1. CASE ProveStark(q) \/ MockProve(q) \/ NetworkProve(q) \/ MockVerify(q) \/ Verify(q)
    BY <2>1 DEF ProveStark, MockProve, NetworkProve, MockVerify, Verify, Fails, Returns, Accepts
  <2>2. CASE Step(q) /\ ~ArtifactSteps(q) /\ ~NetworkSteps(q)
    BY <2>2 DEF Step, SelfVerify, NetworkReturns, VerifyStark, VerifySnark, GiveUp, Fails,
                Returns, Accepts
  <2>3. ASSUME NEW pc, Goto(q, pc) PROVE \E c : call' = [call EXCEPT ![q] = c]
    BY <2>3 DEF Goto
  <2>4. CASE NetworkSteps(q)
    BY <2>3, <2>4 DEF NetworkSteps, RequestProof, Connect, AskStatus, Wake, Fetch,
                      AnswerComputing, AnswerSuccess, AnswerError
  <2>5. CASE ArtifactSteps(q)
    BY <2>3, <2>5 DEF ArtifactSteps, CheckInstalled, CreateDir, Download, Unpack, Unpacked,
                      BuildDev, BuiltDev, Wrap
  <2>6. CASE Crash(q)
    BY <2>6 DEF Crash, Fails
  <2> QED
    BY <1>3, <2>1, <2>2, <2>4, <2>5, <2>6
<1>6. q = p
  BY <1>1, <1>4, <1>5
<1>7. ~(ProveStark(p) \/ MockProve(p) \/ NetworkProve(p) \/ MockVerify(p) \/ Verify(p))
  BY <1>1 DEF ProveStark, MockProve, NetworkProve, MockVerify, Verify, StartCall, Free
<1>8. ~Crash(p)
  <2>1. Crash(p) => call'[p].pc = "idle"
    BY <1>4 DEF Crash, Fails, At
  <2> QED
    BY <1>1, <2>1
<1>9. ~(SelfVerify(p) \/ NetworkReturns(p) \/ GiveUp(p) \/ ArtifactSteps(p) \/ NetworkSteps(p))
  BY <1>1 DEF SelfVerify, NetworkReturns, GiveUp, ArtifactSteps, CheckInstalled, CreateDir,
              Download, Unpack, Unpacked, BuildDev, BuiltDev, Wrap, NetworkSteps, RequestProof,
              Connect, AskStatus, Wake, Fetch, AnswerComputing, AnswerSuccess, AnswerError
<1> QED
  BY <1>3, <1>6, <1>7, <1>8, <1>9 DEF Step

\* The cause of a rejection, from the invariant.
LEMMA Cause ==
    ASSUME ClientInv, NEW p \in Processes, Rejects(p), VerifyStark(p) \/ VerifySnark(p)
    PROVE  IF call[p].bundle.kind \in {"Core", "Compressed"}
           THEN guestImm # call[p].env.imm
           ELSE /\ disk[DirOf(p)] # Whole(call[p].bundle.key)
                /\ call[p].bundle.kind = "Groth16" /\ ~call[p].env.dev =>
                       disk[DirOf(p)].state = "partial"
<1> DEFINE b == call[p].bundle
           d == DirOf(p)
<1>1. /\ call[p].pc \in {"verifystark", "verifysnark"} /\ call'[p].pc = "failed"
      /\ b.by = "cpu" /\ call[p].env = b.env
  BY DEF Rejects
<1>2. call[p].pc \notin AtNetwork \cup AtRest \cup Installing
  BY <1>1 DEF AtNetwork, AtRest, Installing
<1>3. Verifying(call[p]) /\ d \in Dirs /\ call[p].env \in Envs
  BY <1>1, <1>2, WorkDir DEF Wrapping, Building
<1>4. b \in proofs /\ Sound(b) /\ (b.kind \in Snarks => Wrapped(b))
  BY <1>1, <1>3 DEF Verifying, ClientInv, ProofsAreSound
<1>5. ASSUME NEW how, Fails(p, how) PROVE how = "failed"
  BY <1>1, <1>5 DEF Fails, At, ClientInv, ClientTypeOK
<1>6. ~Accepts(p)
  BY <1>1 DEF Accepts, At, ClientInv, ClientTypeOK
<1>7. CASE VerifyStark(p)
  <2>1. b.kind \notin Snarks
    BY <1>3, <1>7 DEF Verifying, VerifyStark
  <2>2. b.kind # "DvSnark" /\ b.committed # HashOf(b.pv, call[p].env.imm)
    BY <1>5, <1>6, <1>7 DEF VerifyStark
  <2>3. b.kind \in {"Core", "Compressed"}
    BY <1>4, <2>1, <2>2 DEF Sound, Snarks
  <2> QED
    BY <1>4, <2>2, <2>3 DEF Sound, HashOf
<1>8. CASE VerifySnark(p)
  <2>1. b.kind \in Snarks
    BY <1>3, <1>8 DEF Verifying, VerifySnark
  <2>2. b.kind \notin {"Core", "Compressed"}
    BY <2>1 DEF Snarks
  <2>3. PublicInputsMatch(b, call[p].env)
    BY <1>1, <1>4, <2>1 DEF PublicInputsMatch, Wrapped, Sound, DigestMatches
  <2>4. disk[d].state = "partial" \/ (disk[d].state = "whole" /\ ~Verifies(b, d))
    BY <1>5, <1>6, <1>8, <2>3 DEF VerifySnark
  <2>5. disk[d] # Whole(b.key)
    BY <1>4, <2>1, <2>4 DEF Wrapped, Verifies, Whole
  <2>6. ASSUME b.kind = "Groth16", ~call[p].env.dev, disk[d].state = "whole" PROVE FALSE
    <3>1. d = ReleaseDir("groth16", b.env.imm)
      BY <1>1, <1>3, <2>6 DEF Verifying, DirOf, ArtifactsDir, SnarkType
    <3>2. b.env.imm \in BOOLEAN
      BY <1>1, <1>3 DEF Envs
    <3>3. disk[d].circuit = [imm |-> b.env.imm, key |-> ReleaseKey]
      BY <2>6, <3>1, <3>2 DEF ClientInv, ReleaseDirs
    <3>4. b.key = disk[d].circuit /\ b.vkeyHash = disk[d].circuit
      BY <1>1, <1>4, <2>1, <2>6, <3>3 DEF Wrapped
    <3> QED
      BY <2>4, <2>6, <3>4 DEF Verifies
  <2> QED
    BY <2>2, <2>4, <2>5, <2>6
<1> QED
  BY <1>7, <1>8

\* What calls hold, what they return and what lies in the release directories keeps
\* its type and its meaning, whatever processes prove, install, build, verify and
\* crash in between.
THEOREM ClientInvariant == Spec => []ClientInv
<1>1. Init => ClientInv
  BY ClientInit
<1>2. ClientInv /\ [Next]_vars => ClientInv'
  BY ClientNext
<1> QED
  BY <1>1, <1>2, PTL DEF Spec

\* CpuProver and verify (sdk/src/provers): a proof that prove returned is rejected in
\* the same environment only because the guest is of the other mode (core and
\* compressed), or because the directory is not that of its circuit; and with a
\* Groth16 release only because the directory is not complete.
THEOREM RejectionsHaveCauses == Spec => RejectionHasACause
<1> DEFINE caused ==
      \A p \in Processes : Rejects(p) =>
         IF call[p].bundle.kind \in {"Core", "Compressed"}
         THEN guestImm # call[p].env.imm
         ELSE /\ disk[DirOf(p)] # Whole(call[p].bundle.key)
              /\ call[p].bundle.kind = "Groth16" /\ ~call[p].env.dev =>
                     disk[DirOf(p)].state = "partial"
<1>1. ClientInv /\ [Next]_vars => caused
  BY RejectionIsVerification, Cause
<1>2. ClientInv /\ [Next]_vars => [caused]_vars
  BY <1>1
<1> QED
  BY <1>2, ClientInvariant, PTL DEF Spec, RejectionHasACause
=============================================================================
