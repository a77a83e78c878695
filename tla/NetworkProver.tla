---------------------------- MODULE NetworkProver ----------------------------
(***************************************************************************)
(* The client of the proof network, sdk/src/network/prover.rs: request a   *)
(* proof, then poll its status until it is there, the job has failed or    *)
(* the timeout has passed.  The service behind the calls is external: it   *)
(* answers or the call fails, and a job may compute for ever.              *)
(*                                                                         *)
(* Time is counted in units. What a call remembers of it is the time since *)
(* wait_proof began (counted until it is past the timeout) and what is     *)
(* left of its sleep.                                                      *)
(***************************************************************************)
EXTENDS CircuitArtifacts, FiniteSetsExt

CONSTANTS
    Timeout,              \* the timeout of a call that has one
    ConfiguredInterval,   \* ZKM_PROOF_POLL_INTERVAL
    MIN_POLL_INTERVAL

ASSUME NetworkAssumption ==
    /\ Timeout \in Nat /\ ConfiguredInterval \in Nat
    /\ MIN_POLL_INTERVAL \in Nat \ {0}

VARIABLE net    \* process |-> [job, timeout, elapsed, sleep]

networkVars == <<net>>

NoWait == [job |-> "none", timeout |-> None, elapsed |-> 0, sleep |-> 0]

NetworkInit == net = [p \in Processes |-> NoWait]

\* from_env
PollInterval == Max({ConfiguredInterval, MIN_POLL_INTERVAL})

\* Kinds the network can make. Any other is unimplemented!().
Supported == {"Compressed", "Groth16", "CompressToGroth16"}

\* request_proof: every call makes a proof_id of its own. Connecting fails with a
\* panic, the RPC with an error; in both cases a job may or may not be running.
RequestProof(p) ==
    /\ call[p].pc = "request"
    /\ \/ /\ call[p].kind \in Supported
          /\ net' = [net EXCEPT ![p].job = "computing"]
          /\ Goto(p, "connect")
       \/ /\ call[p].kind \in Supported
          /\ Goto(p, "failed") \/ Goto(p, "panicked")
          /\ UNCHANGED net
       \/ /\ call[p].kind \notin Supported
          /\ Goto(p, "panicked")
          /\ UNCHANGED net
    /\ UNCHANGED artifactVars

\* wait_proof: the time counts from here, before the connection is made.
Connect(p) ==
    /\ call[p].pc = "connect"
    /\ Goto(p, "loop") \/ Goto(p, "panicked")
    /\ UNCHANGED <<artifactVars, net>>

\* Mutant of TimedOut: the timeout is dropped on the way.
BugTimedOut(p) == FALSE

TimedOut(p) == net[p].timeout # None /\ net[p].elapsed > net[p].timeout

\* The head of the loop: bail, or ask for the status.
AskStatus(p) ==
    /\ call[p].pc = "loop"
    /\ Goto(p, IF TimedOut(p) THEN "failed" ELSE "asked")
    /\ UNCHANGED <<artifactVars, net>>

\* The answer to get_status. A failed call, or any status but Computing and
\* Success, ends the wait; a step the client does not know is todo!().
AnswerComputing(p) ==
    /\ call[p].pc = "asked"
    /\ net[p].job = "computing"
    /\ \/ Goto(p, "sleep") /\ net' = [net EXCEPT ![p].sleep = PollInterval]
       \/ Goto(p, "panicked") /\ UNCHANGED net
    /\ UNCHANGED artifactVars

AnswerSuccess(p) ==
    /\ call[p].pc = "asked"
    /\ net[p].job = "success"
    /\ Goto(p, "fetch")
    /\ UNCHANGED <<artifactVars, net>>

AnswerError(p) ==
    /\ call[p].pc = "asked"
    /\ Goto(p, "failed")
    /\ UNCHANGED <<artifactVars, net>>

Wake(p) ==
    /\ call[p].pc = "sleep"
    /\ net[p].sleep = 0
    /\ Goto(p, "loop")
    /\ UNCHANGED <<artifactVars, net>>

\* The public values are downloaded, or are those of the caller, who must have
\* given exactly one input; only now is that asserted. A proof that cannot be
\* deserialized is a panic.
Fetch(p) ==
    /\ call[p].pc = "fetch"
    /\ Goto(p, "fetched") \/ Goto(p, "failed") \/ Goto(p, "panicked")
    /\ UNCHANGED <<artifactVars, net>>

\* External: the service completes a job, or gives it up.
JobEnds(p) ==
    /\ net[p].job = "computing"
    /\ \E s \in {"success", "failed"} : net' = [net EXCEPT ![p].job = s]
    /\ UNCHANGED <<artifactVars, call>>

Waiting(p) == call[p].pc \in {"connect", "loop", "asked", "sleep"}

\* Time passes for those who wait.
Tick ==
    LET later(p) ==
            IF ~Waiting(p) THEN net[p]
            ELSE [net[p] EXCEPT
                    !.elapsed = IF net[p].timeout = None THEN 0 ELSE Min({@ + 1, Timeout + 1}),
                    !.sleep = IF @ = 0 THEN 0 ELSE @ - 1]
    IN /\ net' = [p \in Processes |-> later(p)]
       /\ net' # net
       /\ UNCHANGED <<artifactVars, call>>

NetworkSteps(p) ==
    \/ RequestProof(p) \/ Connect(p) \/ AskStatus(p) \/ Wake(p) \/ Fetch(p)
    \/ AnswerComputing(p) \/ AnswerSuccess(p) \/ AnswerError(p)
=============================================================================
