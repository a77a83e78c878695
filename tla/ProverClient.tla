---------------------------- MODULE ProverClient ----------------------------
(***************************************************************************)
(* The SDK: processes of one machine that prove and verify.  A call is a   *)
(* Prove::run (or prove_with_cycles) of a prover, sdk/src/provers and      *)
(* network/prover.rs, or a verify of a proof that an earlier call          *)
(* returned.  The modes ZKM_DEV and ZKM_IMM_WRAP_VK are environment        *)
(* variables read during each call; a call keeps the values it began with. *)
(* The artifacts are those of CircuitArtifacts.tla.                        *)
(*                                                                         *)
(* A proof is [kind, by, env, pv, committed, vk, key, vkeyHash]: who made  *)
(* it in which environment (history, for the properties), the public       *)
(* values in the bundle, those the guest committed to together with the    *)
(* hash function it used (a guest is built for one mode), the kind of vkey *)
(* hash among the public inputs, the circuit, and the circuit whose hash   *)
(* the proof carries.                                                      *)
(***************************************************************************)
EXTENDS NetworkProver

CONSTANTS
    MaxCalls,    \* bound: calls that are made
    Kinds,       \* kinds of proof that are asked for
    Provers,     \* "cpu" (and "cuda", which goes through the same steps), "mock", "network"
    CallModes    \* environments of the calls: the modes of EnvOf

ASSUME ClientAssumption ==
    /\ Kinds \subseteq {"Core", "Compressed", "Plonk", "Groth16", "DvSnark",
                        "CompressToGroth16"}
    /\ Provers \subseteq {"cpu", "mock", "network"}
    /\ CallModes \subseteq {"release", "imm", "dev", "dev-imm"}
    /\ MaxCalls \in Nat /\ MaxBuilds >= MaxCalls

VARIABLES
    guestImm,   \* the guest was built with the imm-wrap-vk feature
    proofs,     \* what calls have returned
    calls       \* calls made

vars == <<artifactVars, networkVars, call, guestImm, proofs, calls>>

\* ZKM_DEV and ZKM_IMM_WRAP_VK
EnvOf(mode) == [dev |-> mode \in {"dev", "dev-imm"}, imm |-> mode \in {"imm", "dev-imm"}]

CallEnvs == {EnvOf(mode) : mode \in CallModes}

NoEnv == [dev |-> FALSE, imm |-> FALSE]

NoProof == [kind |-> "none", by |-> "none", env |-> NoEnv, pv |-> "none",
            committed |-> "none", vk |-> "none", key |-> None, vkeyHash |-> None]

\* A call at pc about which there is nothing else to know.
At(pc) == [pc |-> pc, prover |-> "none", kind |-> "none", type |-> "none",
           env |-> NoEnv, use |-> "none", bundle |-> NoProof]

Free(p) == call[p].pc = "idle"

Init ==
    /\ ArtifactsInit /\ NetworkInit
    /\ call = [p \in Processes |-> At("idle")]
    /\ guestImm \in BOOLEAN
    /\ proofs = {}
    /\ calls = 0

\* The call returns Err ("failed") or panics ("panicked").
Fails(p, how) ==
    /\ call' = [call EXCEPT ![p] = At(how)]
    /\ proofs' = proofs

\* prove returns Ok(bundle).
Returns(p, bundle) ==
    /\ call' = [call EXCEPT ![p] = At("idle")]
    /\ proofs' = proofs \cup {bundle}

\* verify returns Ok(()).
Accepts(p) ==
    /\ call' = [call EXCEPT ![p] = At("idle")]
    /\ proofs' = proofs

-----------------------------------------------------------------------------
(* prove *)

SnarkType(kind) == IF kind = "Plonk" THEN "plonk" ELSE "groth16"

\* ZKMPublicValues::hash
HashOf(pv, imm) == <<pv, imm>>

\* A proof of the guest. compress_to_groth16 returns a Groth16 proof, and takes
\* the public values from the caller, who may have mixed them up.
Proved(prover, kind, env) ==
    {[NoProof EXCEPT !.kind = IF kind = "CompressToGroth16" THEN "Groth16" ELSE kind,
                     !.by = prover, !.env = env, !.pv = pv,
                     !.committed = HashOf("guest", guestImm)] :
        pv \in IF kind = "CompressToGroth16" THEN {"guest", "mixedup"} ELSE {"guest"}}

\* Bound: the wait for the network reads nothing that other calls leave and leaves
\* nothing but a proof. It is the first call, and the others begin when it is over.
StartCall(p) ==
    /\ Free(p)
    /\ \A q \in Processes : call[q].prover # "network"
    /\ calls < MaxCalls
    /\ calls' = calls + 1
    /\ UNCHANGED <<artifactVars, guestImm>>

\* Mutant of DigestMatches: the hash function is not compared.
BugDigestMatches(bundle, env) == bundle.pv = "guest"

\* The check between wrap_bn254 and the snark.
DigestMatches(bundle, env) == bundle.committed = HashOf(bundle.pv, env.imm)

\* CpuProver::prove_impl, CudaProver::prove_with_cycles and their
\* compress_to_groth16 up to the snark. Any stage may fail; the inputs of
\* compress_to_groth16 are asserted to be one buffer and one proof.
ProveStark(p) ==
    /\ "cpu" \in Provers
    /\ StartCall(p)
    /\ \E kind \in Kinds, env \in CallEnvs : \E b \in Proved("cpu", kind, env) :
         \/ Fails(p, "failed")
         \/ kind = "CompressToGroth16" /\ Fails(p, "panicked")
         \/ kind \in {"Core", "Compressed"} /\ Returns(p, b)
         \/ /\ kind \notin {"Core", "Compressed"}
            /\ ~DigestMatches(b, env)
            /\ Fails(p, "failed")
         \/ kind = "DvSnark" /\ DigestMatches(b, env) /\ Returns(p, b)
         \/ /\ kind \in {"Plonk", "Groth16", "CompressToGroth16"}
            /\ DigestMatches(b, env)
            /\ call' = [call EXCEPT ![p] =
                          [pc |-> IF env.dev THEN "build" ELSE "check", prover |-> "cpu",
                           kind |-> kind, type |-> SnarkType(kind), env |-> env,
                           use |-> "wrap", bundle |-> b]]
            /\ UNCHANGED proofs
    /\ UNCHANGED net

\* The end of wrap_groth16_bn254 and wrap_plonk_bn254: the result is unwrapped.
SelfVerify(p) ==
    /\ call[p].pc = "selfverify"
    /\ IF Verifies(call[p].bundle, DirOf(p)) THEN Returns(p, call[p].bundle)
                                             ELSE Fails(p, "panicked")
    /\ UNCHANGED <<artifactVars, net, guestImm, calls>>

\* MockProver::prove_impl: the program is executed and nothing is proved.
MockProve(p) ==
    /\ "mock" \in Provers
    /\ StartCall(p)
    /\ \E kind \in Kinds, env \in CallEnvs : \E b \in Proved("mock", kind, env) :
         \/ kind = "CompressToGroth16" /\ Fails(p, "panicked")
         \/ kind # "CompressToGroth16" /\ Fails(p, "failed")
         \/ /\ kind # "CompressToGroth16"
            /\ Returns(p, [b EXCEPT !.vk = "plain", !.committed = HashOf(b.pv, env.imm)])
    /\ UNCHANGED net

\* NetworkProver: prove_with_cycles passes its timeout on, prove_impl (which
\* Prove::run calls) passes none.
NetworkProve(p) ==
    /\ "network" \in Provers
    /\ StartCall(p)
    /\ calls = 0
    /\ \E kind \in Kinds, timeout \in {None, Timeout} :
         /\ call' = [call EXCEPT ![p] = [At("request") EXCEPT
                                           !.prover = "network", !.kind = kind]]
         /\ net' = [net EXCEPT ![p] = [NoWait EXCEPT !.timeout = timeout]]
    /\ UNCHANGED proofs

\* External: the service returns a proof made with its release, in its mode.
NetworkReturns(p) ==
    /\ call[p].pc = "fetched"
    /\ \E imm \in BOOLEAN :
         LET env == [dev |-> FALSE, imm |-> imm]
             c == [imm |-> imm, key |-> ReleaseKey]
         IN \E b \in Proved("network", call[p].kind, env) :
              Returns(p, IF b.kind # "Groth16" THEN b
                         ELSE [b EXCEPT !.key = c, !.vkeyHash = c,
                                        !.vk = VkHash("groth16", imm)])
    /\ net' = [net EXCEPT ![p] = NoWait]
    /\ UNCHANGED <<artifactVars, guestImm, calls>>

-----------------------------------------------------------------------------
(* verify *)

\* verify_plonk_bn254_public_inputs, verify_groth16_bn254_public_inputs
PublicInputsMatch(b, env) ==
    /\ b.vk = VkHash(SnarkType(b.kind), env.imm)
    /\ b.committed = HashOf(b.pv, env.imm)

\* The mock prover looks at public inputs only, and only at those of snarks.
MockVerify(p) ==
    /\ "mock" \in Provers
    /\ StartCall(p)
    /\ \E b \in proofs, env \in CallEnvs :
         IF b.kind \in {"Plonk", "Groth16"} /\ ~PublicInputsMatch(b, env)
         THEN Fails(p, "failed") ELSE Accepts(p)
    /\ UNCHANGED net

\* Prover::verify of the others; all proofs are of this version. The mock prover's
\* core and compressed proofs have no public values to look into, and kinds that
\* are not expected are unreachable!(). Snarks need the artifacts, which in
\* development mode must have been built before.
Verify(p) ==
    /\ Provers # {"mock"}
    /\ StartCall(p)
    /\ \E b \in proofs, env \in CallEnvs :
         /\ call' = [call EXCEPT ![p] =
              [At(IF b.kind \notin {"Plonk", "Groth16"} THEN "verifystark"
                     ELSE IF env.dev THEN "verifysnark" ELSE "check") EXCEPT
                 !.prover = "cpu", !.type = SnarkType(b.kind), !.env = env,
                 !.use = "verifysnark", !.bundle = b]]
    /\ UNCHANGED <<net, proofs>>

VerifyStark(p) ==
    LET b == call[p].bundle
    IN /\ call[p].pc = "verifystark"
       /\ IF b.by = "mock" \/ b.kind = "DvSnark" THEN Fails(p, "panicked")
          ELSE IF b.committed # HashOf(b.pv, call[p].env.imm) THEN Fails(p, "failed")
          ELSE Accepts(p)
       /\ UNCHANGED <<artifactVars, net, guestImm, calls>>

\* verify_plonk_bn254, verify_groth16_bn254. A missing verifying key is a panic, a
\* broken one has another hash.
VerifySnark(p) ==
    LET b == call[p].bundle
        d == DirOf(p)
    IN /\ call[p].pc = "verifysnark"
       /\ \/ disk[d].state # "whole" /\ Fails(p, "panicked")
          \/ disk[d].state = "partial" /\ Fails(p, "failed")
          \/ /\ disk[d].state = "whole"
             /\ IF Verifies(b, d) /\ PublicInputsMatch(b, call[p].env)
                THEN Accepts(p) ELSE Fails(p, "failed")
       /\ UNCHANGED <<artifactVars, net, guestImm, calls>>

-----------------------------------------------------------------------------

\* The caller gets the error, or catches the panic.
GiveUp(p) ==
    /\ call[p].pc \in {"failed", "panicked"}
    /\ Fails(p, "idle")
    /\ net' = [net EXCEPT ![p] = NoWait]
    /\ UNCHANGED <<artifactVars, guestImm, calls>>

\* The process is killed and started again. What it has on disk stays.
Crash(p) ==
    /\ ~Free(p)
    /\ Fails(p, "idle")
    /\ net' = [net EXCEPT ![p] = NoWait]
    /\ provingKey' = [provingKey EXCEPT ![p] = None]
    /\ UNCHANGED <<disk, builds, guestImm, calls>>

Step(p) ==
    \/ SelfVerify(p) \/ NetworkReturns(p) \/ VerifyStark(p) \/ VerifySnark(p) \/ GiveUp(p)
    \/ ArtifactSteps(p) /\ UNCHANGED <<net, guestImm, proofs, calls>>
    \/ NetworkSteps(p) /\ UNCHANGED <<guestImm, proofs, calls>>

TimePasses == Tick /\ UNCHANGED <<guestImm, proofs, calls>>

Next ==
    \/ \E p \in Processes :
         \/ ProveStark(p) \/ MockProve(p) \/ NetworkProve(p) \/ MockVerify(p) \/ Verify(p)
         \/ Step(p) \/ Crash(p)
         \/ JobEnds(p) /\ UNCHANGED <<guestImm, proofs, calls>>
    \/ TimePasses

\* Processes run, time passes, and the service answers each call or the connection
\* breaks. A job need not end.
Fairness ==
    /\ \A p \in Processes : WF_vars(Step(p))
    /\ WF_vars(TimePasses)

Spec == Init /\ [][Next]_vars /\ Fairness

-----------------------------------------------------------------------------
(* Properties. *)

Rejects(p) ==
    /\ call[p].pc \in {"verifystark", "verifysnark"}
    /\ call'[p].pc = "failed"
    /\ call[p].bundle.by = "cpu"
    /\ call[p].env = call[p].bundle.env

\* A proof that prove returned is rejected in the same environment only when
\* something happened to it: the guest was built for the other mode and nothing
\* looked at that (core and compressed proofs), or the directory is not, or no
\* longer, that of the circuit that was proved with.  With a Groth16 release the
\* latter can only be a directory that is not complete: both modes can be used on
\* one machine, in whatever order processes install.
RejectionHasACause ==
    [][\A p \in Processes : Rejects(p) =>
         IF call[p].bundle.kind \in {"Core", "Compressed"}
         THEN guestImm # call[p].env.imm
         ELSE /\ disk[DirOf(p)] # Whole(call[p].bundle.key)
              /\ call[p].bundle.kind = "Groth16" /\ ~call[p].env.dev =>
                     disk[DirOf(p)].state = "partial"]_vars

Endless(p) == call[p].prover = "network" /\ net[p].timeout = None

\* Every call ends, also when its job computes for ever, unless it is a call to
\* the network without a timeout.
CallsEnd ==
    \A p \in Processes : (~Free(p) /\ ~Endless(p)) ~> Free(p)
=============================================================================
