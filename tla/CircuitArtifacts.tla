-------------------------- MODULE CircuitArtifacts --------------------------
(***************************************************************************)
(* The circuit artifacts of the Plonk and Groth16 wrappers, as the         *)
(* processes of one machine share them: directories under ~/.zkm/circuits  *)
(* that sdk/src/install.rs downloads, or prover/src/build.rs builds in     *)
(* development mode, and the proving key that gnark keeps in memory once a *)
(* process has read it (gnark-ffi/go/zkm/prove.go).                        *)
(*                                                                         *)
(* A circuit is [imm, key]: whether it was built in imm-wrap-vk mode, and  *)
(* which setup made its keys.  A release has one setup; every build of the *)
(* development mode makes a new one.                                       *)
(***************************************************************************)
EXTENDS Naturals, FiniteSets, Functions, TLC

CONSTANTS
    Processes,
    None,
    MaxBuilds    \* at least as many as there are calls

VARIABLES
    disk,         \* directory |-> [state: "absent", "partial" or "whole", circuit]
    builds,       \* setups made in development mode so far
    provingKey,   \* process |-> the circuit in gnark's globalPk, or None
    call          \* process |-> what it is doing; see ProverClient.tla

artifactVars == <<disk, builds, provingKey>>

Types == {"groth16", "plonk"}
Envs == [dev : BOOLEAN, imm : BOOLEAN]

Circuits == [imm : BOOLEAN, key : 0 .. MaxBuilds]
ReleaseKey == 0
Absent == [state |-> "absent", circuit |-> None]
Partial == [state |-> "partial", circuit |-> None]
Whole(c) == [state |-> "whole", circuit |-> c]

\* Mutant of ReleaseDir: one directory for both modes.
BugOneDir(type, imm) == <<"release", type>>

\* groth16_circuit_artifacts_dir, plonk_circuit_artifacts_dir: only the first
\* depends on the mode.
ReleaseDir(type, imm) ==
    IF type = "groth16" /\ imm THEN <<"imm-wrap-vk", type>> ELSE <<"release", type>>

\* The development directory is one, but the files of the two types in it differ.
ArtifactsDir(type, env) == IF env.dev THEN <<"dev", type>> ELSE ReleaseDir(type, env.imm)

Dirs == {ArtifactsDir(t, e) : t \in Types, e \in Envs}

ArtifactsInit ==
    /\ disk = [d \in Dirs |-> Absent]
    /\ builds = 0
    /\ provingKey = [p \in Processes |-> None]

DirOf(p) == ArtifactsDir(call[p].type, call[p].env)

Goto(p, pc) == call' = [call EXCEPT ![p].pc = pc]

-----------------------------------------------------------------------------
(* install.rs *)

\* try_install_circuit_artifacts: a directory that exists counts as installed.
CheckInstalled(p) ==
    /\ call[p].pc = "check"
    /\ Goto(p, IF disk[DirOf(p)].state = "absent" THEN "create" ELSE call[p].use)
    /\ UNCHANGED artifactVars

\* install_circuit_artifacts begins with create_dir_all, which is content with a
\* directory another process has made meanwhile.
CreateDir(p) ==
    /\ call[p].pc = "create"
    /\ disk' = [disk EXCEPT ![DirOf(p)] = IF @ = Absent THEN Partial ELSE @]
    /\ Goto(p, "download")
    /\ UNCHANGED <<builds, provingKey>>

\* The archive goes to a temporary file. A failed download is a panic, and the
\* directory stays.
Download(p) ==
    /\ call[p].pc = "download"
    /\ Goto(p, "unpack") \/ Goto(p, "panicked")
    /\ UNCHANGED artifactVars

\* tar starts to write files, over those that are there.
Unpack(p) ==
    /\ call[p].pc = "unpack"
    /\ disk' = [disk EXCEPT ![DirOf(p)] = Partial]
    /\ Goto(p, "unpacking")
    /\ UNCHANGED <<builds, provingKey>>

\* tar ends; its exit status is not looked at. The archive is chosen by type and
\* mode.
Unpacked(p) ==
    /\ call[p].pc = "unpacking"
    /\ \E result \in {Partial, Whole([imm |-> call[p].env.imm, key |-> ReleaseKey])} :
         disk' = [disk EXCEPT ![DirOf(p)] = result]
    /\ Goto(p, call[p].use)
    /\ UNCHANGED <<builds, provingKey>>

-----------------------------------------------------------------------------
(* build.rs, development mode: every proof builds the circuit again. *)

BuildDev(p) ==
    /\ call[p].pc = "build"
    /\ disk' = [disk EXCEPT ![DirOf(p)] = Partial]
    /\ Goto(p, "building")
    /\ UNCHANGED <<builds, provingKey>>

\* A new setup, made for the mode of the moment.
BuiltDev(p) ==
    /\ call[p].pc = "building"
    /\ builds' = builds + 1
    /\ disk' = [disk EXCEPT ![DirOf(p)] =
                   Whole([imm |-> call[p].env.imm, key |-> builds + 1])]
    /\ Goto(p, "wrap")
    /\ UNCHANGED provingKey

-----------------------------------------------------------------------------
(* gnark *)

\* ProveGroth16 reads circuit and proving key only once in the life of a process;
\* ProvePlonk reads them every time. None: the files are missing or broken.
KeyFor(p) ==
    LET onDisk == disk[DirOf(p)].circuit
    IN IF call[p].type = "groth16" /\ provingKey[p] # None THEN provingKey[p] ELSE onDisk

\* The vkey hash among the public inputs of a Groth16 proof is combined with the
\* wrap program's key in imm-wrap-vk mode; that of a Plonk proof never is.
VkHash(type, imm) == IF type = "groth16" /\ imm THEN "combined" ELSE "plain"

\* prove_groth16_bn254, prove_plonk_bn254: the witness must satisfy the circuit.
\* The hash of the verifying key that lies on disk is added to the proof. Whatever
\* goes wrong ends the process, since Go's panics cannot be caught.
Wrap(p) ==
    /\ call[p].pc = "wrap"
    /\ LET c == KeyFor(p)
       IN IF c # None /\ c.imm = (VkHash(call[p].type, call[p].env.imm) = "combined")
          THEN /\ LET wrapped == [call[p].bundle EXCEPT
                                    !.key = c, !.vkeyHash = disk[DirOf(p)].circuit,
                                    !.vk = VkHash(call[p].type, call[p].env.imm)]
                  IN call' = [call EXCEPT ![p] = [@ EXCEPT !.pc = "selfverify",
                                                           !.bundle = wrapped]]
               /\ provingKey' = IF call[p].type = "groth16"
                                THEN [provingKey EXCEPT ![p] = c] ELSE provingKey
          ELSE /\ Goto(p, "panicked")
               /\ provingKey' = [provingKey EXCEPT ![p] = None]
    /\ UNCHANGED <<disk, builds>>

\* Groth16Bn254Prover::verify, PlonkBn254Prover::verify: the proof is of the
\* circuit on disk.
Verifies(bundle, d) ==
    /\ disk[d].state = "whole"
    /\ bundle.vkeyHash = disk[d].circuit
    /\ bundle.key = disk[d].circuit

ArtifactSteps(p) ==
    \/ CheckInstalled(p) \/ CreateDir(p) \/ Download(p) \/ Unpack(p) \/ Unpacked(p)
    \/ BuildDev(p) \/ BuiltDev(p) \/ Wrap(p)
=============================================================================
