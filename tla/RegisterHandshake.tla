--------------------------- MODULE RegisterHandshake ---------------------------
(***************************************************************************)
(* The DO_REGISTER handshake of hyxe_net (src/hyxe_net/src/hdp/            *)
(* packet_processor/register_packet.rs): Alice, the client, registers an   *)
(* account at Bob, the server.                                             *)
(*                                                                         *)
(*   Alice --STAGE0 (public key, passwordless?)-->  Bob                    *)
(*   Alice <--STAGE1 (ciphertext) or FAILURE--      Bob                    *)
(*   Alice --STAGE2 (credentials)-->                Bob  registers a CNAC  *)
(*   Alice <--SUCCESS or FAILURE--                  Bob                    *)
(*   Alice registers her local CNAC, then either tells her kernel          *)
(*   RegisterOkay / RegisterFailure, or (passwordless) begins to connect.  *)
(*                                                                         *)
(* Each side's register_state.last_stage selects which packets it accepts. *)
(* The packets travel over the session's TCP primary stream: reliable and  *)
(* in order, one FIFO per direction.  Alice's opening move (sending STAGE0 *)
(* from her state container, last_stage = STAGE0 and an Alice constructor  *)
(* in place) is the initial state.  The key exchange itself is abstracted: *)
(* a transfer that validates is one Alice's peer produced; the outcomes    *)
(* the code branches on (the passwordless request, Bob's                   *)
(* allow_passwordless setting, whether each account manager registers the *)
(* CNAC) are inputs.                                                       *)
(***************************************************************************)
EXTENDS Naturals, Sequences

CONSTANTS
    Clients,            \* the Alices registering at one server concurrently
    AllowPasswordless   \* Bob's account_manager misc setting

\* packet_flags::cmd::aux::do_register
STAGE0 == 0
STAGE1 == 1
STAGE2 == 2

Packets == {"STAGE0", "STAGE1", "STAGE2", "SUCCESS", "FAILURE"}

\* The SessionState values Alice's session passes through here
SessionStates == {"NeedsRegister", "ConnectionProcess", "Ended"}

\* NodeResult sent to Alice's kernel, or the connect that follows
Outcomes == {"none", "RegisterOkay", "RegisterFailure", "BeginConnect"}

(* Per client c: Alice's session at c, and Bob's server-side session for c. *)
VARIABLES
    aStage, bStage,     \* register_state.last_stage of Alice and of Bob
    aCtor,              \* Alice's register_state.constructor is present
    passwordless,       \* what Alice's STAGE0 asks for
    aState,             \* Alice's session.state
    toBob, toAlice,     \* the TCP stream, per direction
    bobCnac,            \* Bob registered Alice's (impersonal) CNAC
    aliceCnac,          \* Alice registered her (personal) CNAC
    outcome             \* what Alice's session reported

vars == <<aStage, bStage, aCtor, passwordless, aState, toBob, toAlice,
          bobCnac, aliceCnac, outcome>>

\* process(): register packets are dropped unless the session is in
\* NeedsRegister, SocketJustOpened or NeedsConnect.
Accepting(st) == st = "NeedsRegister"

-----------------------------------------------------------------------------
(* Bob                                                                      *)

\* STAGE0 at Bob: with last_stage = STAGE0 and a valid transfer, record the
\* passwordless flag; if passwordless is asked for and not allowed, reply
\* FAILURE leaving last_stage as it is; otherwise build Bob's ratchet, set
\* last_stage := STAGE1 and reply STAGE1.  At any other stage, drop.
BobStage0(c) ==
    IF bStage[c] = STAGE0
    THEN IF passwordless[c] /\ ~AllowPasswordless
         THEN /\ toAlice' = [toAlice EXCEPT ![c] = Append(@, "FAILURE")]
              /\ UNCHANGED bStage
         ELSE /\ bStage' = [bStage EXCEPT ![c] = STAGE1]
              /\ toAlice' = [toAlice EXCEPT ![c] = Append(@, "STAGE1")]
    ELSE UNCHANGED <<bStage, toAlice>>

\* A plausible bug at Bob's STAGE2: the CNAC result ignored, SUCCESS sent
\* whether or not register_impersonal_hyperlan_client_network_account
\* succeeded.
BobStage2IgnoresResult(c) ==
    IF bStage[c] = STAGE1
    THEN \E ok \in BOOLEAN :
            /\ bobCnac' = [bobCnac EXCEPT ![c] = ok]
            /\ toAlice' = [toAlice EXCEPT ![c] = Append(@, "SUCCESS")]
    ELSE UNCHANGED <<bobCnac, toAlice>>

\* STAGE2 at Bob: with last_stage = STAGE1 and credentials that validate
\* under the created ratchet, register Alice's CNAC (the account manager
\* may refuse it, e.g. a taken username) and reply SUCCESS or FAILURE.
\* last_stage stays STAGE1.
BobStage2(c) ==
    IF bStage[c] = STAGE1
    THEN \E ok \in BOOLEAN :
            /\ bobCnac' = [bobCnac EXCEPT ![c] = ok]
            /\ toAlice' = [toAlice EXCEPT ![c] =
                              Append(@, IF ok THEN "SUCCESS" ELSE "FAILURE")]
    ELSE UNCHANGED <<bobCnac, toAlice>>

\* Bob's process() for the STAGE0 at the head of c's stream.
BobProcessStage0(c) ==
    /\ toBob[c] # <<>> /\ Head(toBob[c]) = "STAGE0"
    /\ toBob' = [toBob EXCEPT ![c] = Tail(@)]
    /\ BobStage0(c)
    /\ UNCHANGED <<aStage, aCtor, passwordless, aState, bobCnac, aliceCnac, outcome>>

\* Bob's process() for the STAGE2 at the head of c's stream.
BobProcessStage2(c) ==
    /\ toBob[c] # <<>> /\ Head(toBob[c]) = "STAGE2"
    /\ toBob' = [toBob EXCEPT ![c] = Tail(@)]
    /\ BobStage2(c)
    /\ UNCHANGED <<aStage, bStage, aCtor, passwordless, aState, aliceCnac, outcome>>

-----------------------------------------------------------------------------
(* Alice                                                                    *)

\* A plausible bug at Alice's STAGE1: last_stage set to STAGE1 (the stage
\* of the packet) in place of STAGE2.
AliceStage1OffByOne(c) ==
    IF aStage[c] = STAGE0 /\ aCtor[c]
    THEN /\ aCtor' = [aCtor EXCEPT ![c] = FALSE]
         /\ toBob' = [toBob EXCEPT ![c] = Append(@, "STAGE2")]
         /\ aStage' = [aStage EXCEPT ![c] = STAGE1]
    ELSE UNCHANGED <<aStage, aCtor, toBob>>

\* A plausible bug at Alice's STAGE1: the stage update forgotten, so she
\* stays at STAGE0.
AliceStage1KeepsStage(c) ==
    IF aStage[c] = STAGE0 /\ aCtor[c]
    THEN /\ aCtor' = [aCtor EXCEPT ![c] = FALSE]
         /\ toBob' = [toBob EXCEPT ![c] = Append(@, "STAGE2")]
         /\ UNCHANGED aStage
    ELSE UNCHANGED <<aStage, aCtor, toBob>>

\* STAGE1 at Alice: with last_stage = STAGE0, take the constructor, finish
\* her ratchet with Bob's ciphertext, set last_stage := STAGE2 and send the
\* proposed credentials in STAGE2.  Without a constructor, or at another
\* stage, drop.
AliceStage1(c) ==
    IF aStage[c] = STAGE0 /\ aCtor[c]
    THEN /\ aCtor' = [aCtor EXCEPT ![c] = FALSE]
         /\ toBob' = [toBob EXCEPT ![c] = Append(@, "STAGE2")]
         /\ aStage' = [aStage EXCEPT ![c] = STAGE2]
    ELSE UNCHANGED <<aStage, aCtor, toBob>>

\* SUCCESS at Alice: with last_stage = STAGE2, register the personal CNAC;
\* on success a passwordless session begins to connect, any other reports
\* RegisterOkay and ends; on failure report RegisterFailure and end.
AliceSuccess(c) ==
    IF aStage[c] = STAGE2
    THEN \E ok \in BOOLEAN :
            /\ aliceCnac' = [aliceCnac EXCEPT ![c] = ok]
            /\ outcome' = [outcome EXCEPT ![c] =
                              CASE ~ok             -> "RegisterFailure"
                                [] passwordless[c] -> "BeginConnect"
                                [] OTHER           -> "RegisterOkay"]
            /\ aState' = [aState EXCEPT ![c] =
                             IF ok /\ passwordless[c] THEN "ConnectionProcess"
                                                     ELSE "Ended"]
    ELSE UNCHANGED <<aliceCnac, outcome, aState>>

\* FAILURE at Alice: accepted only once last_stage > STAGE0 ("a failure can
\* be sent at any stage greater than the zeroth"); then RegisterFailure to
\* the kernel and the session ends.  At STAGE0 it is dropped.
AliceFailure(c) ==
    IF aStage[c] > STAGE0
    THEN /\ outcome' = [outcome EXCEPT ![c] = "RegisterFailure"]
         /\ aState' = [aState EXCEPT ![c] = "Ended"]
    ELSE UNCHANGED <<outcome, aState>>

\* Alice's process() for the packet at the head of her stream; a session
\* no longer in a registering state drops it.
AliceProcess(c) ==
    /\ toAlice[c] # <<>>
    /\ toAlice' = [toAlice EXCEPT ![c] = Tail(@)]
    /\ LET pkt == Head(toAlice[c]) IN
       IF ~Accepting(aState[c])
       THEN UNCHANGED <<aStage, aCtor, toBob, aliceCnac, outcome, aState>>
       ELSE CASE pkt = "STAGE1" ->
                    AliceStage1(c) /\ UNCHANGED <<aliceCnac, outcome, aState>>
              [] pkt = "SUCCESS" ->
                    AliceSuccess(c) /\ UNCHANGED <<aStage, aCtor, toBob>>
              [] OTHER ->
                    AliceFailure(c) /\ UNCHANGED <<aStage, aCtor, toBob, aliceCnac>>
    /\ UNCHANGED <<bStage, passwordless, bobCnac>>

-----------------------------------------------------------------------------

\* Every Alice has sent STAGE0 from NeedsRegister; Bob's fresh session for
\* her awaits it.
Init ==
    /\ aStage = [c \in Clients |-> STAGE0]
    /\ bStage = [c \in Clients |-> STAGE0]
    /\ aCtor = [c \in Clients |-> TRUE]
    /\ passwordless \in [Clients -> BOOLEAN]
    /\ aState = [c \in Clients |-> "NeedsRegister"]
    /\ toBob = [c \in Clients |-> <<"STAGE0">>]
    /\ toAlice = [c \in Clients |-> <<>>]
    /\ bobCnac = [c \in Clients |-> FALSE]
    /\ aliceCnac = [c \in Clients |-> FALSE]
    /\ outcome = [c \in Clients |-> "none"]

Next ==
    \E c \in Clients :
        \/ BobProcessStage0(c)
        \/ BobProcessStage2(c)
        \/ AliceProcess(c)

\* Each session's packet-processing task keeps reading its TCP stream.
Spec ==
    /\ Init /\ [][Next]_vars
    /\ \A c \in Clients :
          /\ WF_vars(BobProcessStage0(c))
          /\ WF_vars(BobProcessStage2(c))
          /\ WF_vars(AliceProcess(c))

-----------------------------------------------------------------------------
(* Properties                                                               *)

\* Alice's last_stage only ever holds STAGE0 or STAGE2 and Bob's STAGE0 or
\* STAGE1: each side moves past the stage of the packet it answers.
TypeOK ==
    /\ aStage \in [Clients -> {STAGE0, STAGE2}]
    /\ bStage \in [Clients -> {STAGE0, STAGE1}]
    /\ aCtor \in [Clients -> BOOLEAN]
    /\ passwordless \in [Clients -> BOOLEAN]
    /\ aState \in [Clients -> SessionStates]
    /\ toBob \in [Clients -> Seq(Packets)]
    /\ toAlice \in [Clients -> Seq(Packets)]
    /\ bobCnac \in [Clients -> BOOLEAN]
    /\ aliceCnac \in [Clients -> BOOLEAN]
    /\ outcome \in [Clients -> Outcomes]

\* When Alice's kernel hears RegisterOkay, or her passwordless session goes
\* on to connect, both Bob and she hold the CNAC of the account: SUCCESS
\* is sent only after register_impersonal_hyperlan_client_network_account
\* succeeded, and Alice reports only after her own registration did.
OkayMeansRegisteredAtBob ==
    \A c \in Clients :
        outcome[c] \in {"RegisterOkay", "BeginConnect"} => bobCnac[c] /\ aliceCnac[c]

\* Every registration attempt ends with Alice learning its result: her
\* kernel gets RegisterOkay or RegisterFailure, or the passwordless session
\* begins to connect.  Bob answers every STAGE0 and STAGE2 he accepts.
AliceLearnsOutcome == \A c \in Clients : <>(outcome[c] # "none")

=============================================================================
