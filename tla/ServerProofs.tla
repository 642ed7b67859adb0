---------------------------- MODULE ServerProofs ----------------------------
(***************************************************************************)
(* The login protocol of serve_client fails closed for any number of       *)
(* connections, ports and credentials, with or without                     *)
(* listener_require_auth.                                                  *)
(***************************************************************************)
EXTENDS Server, TLAPS

(* A connection that is served without LOGIN was accepted when none was    *)
(* asked for.  Otherwise what it presented is what it copied, and a copy   *)
(* that is not empty was configured by an operator.                        *)
SessionInv ==
    /\ creds # Empty => creds \in issued
    /\ \A k \in Conns :
        /\ phase[k] # "new" /\ expected[k] # Empty => expected[k] \in issued
        /\ phase[k] = "served" =>
            \/ expected[k] # Empty /\ presented[k] = expected[k]
            \/ expected[k] = Empty /\ ~require_auth

(* Type correctness of the listener, the credentials and the sessions. *)
THEOREM TypeCorrect == Spec => []TypeOK
<1>1. Init => TypeOK
  BY DEF Init, TypeOK, Pairs
<1>2. TypeOK /\ [Next]_vars => TypeOK'
  <2> SUFFICES ASSUME TypeOK, [Next]_vars PROVE TypeOK'
    OBVIOUS
  <2> USE DEF TypeOK, Pairs, sessions
  <2>1. ASSUME NEW p \in Ports, Listen(p) \/ ListenFails(p) PROVE TypeOK'
    BY <2>1 DEF Listen, ListenFails
  <2>2. CASE StopListen
    BY <2>2 DEF StopListen
  <2>3. ASSUME NEW c \in Credentials, SetCredentials(c) PROVE TypeOK'
    BY <2>3 DEF SetCredentials
  <2>3a. CASE SetCredentialsText
    BY <2>3a DEF SetCredentialsText
  <2>4. ASSUME NEW k \in Conns, NEW p \in Ports, Accept(k, p) PROVE TypeOK'
    BY <2>4 DEF Accept
  <2>5. ASSUME NEW k \in Conns, NEW c \in Pairs, Login(k, c) PROVE TypeOK'
    BY <2>5 DEF Login, Close
  <2>6. ASSUME NEW k \in Conns, RefuseStatement(k) \/ Quit(k) PROVE TypeOK'
    BY <2>6 DEF RefuseStatement, Quit, Close
  <2>7. CASE UNCHANGED vars
    BY <2>7 DEF vars
  <2> QED
    BY <2>1, <2>2, <2>3, <2>3a, <2>4, <2>5, <2>6, <2>7 DEF Next
<1> QED
  BY <1>1, <1>2, PTL DEF Spec

(* Nobody's statements are dispatched without the login the configuration  *)
(* asked for when the connection was accepted (serve_client).              *)
THEOREM Authentication == Spec => []FailClosed
<1>1. Init => SessionInv
  BY DEF Init, SessionInv
<1>2. TypeOK /\ SessionInv /\ [Next]_vars => SessionInv'
  <2> SUFFICES ASSUME TypeOK, SessionInv, [Next]_vars PROVE SessionInv'
    OBVIOUS
  <2> USE DEF TypeOK, SessionInv, sessions
  <2>1. ASSUME NEW p \in Ports, Listen(p) \/ ListenFails(p) PROVE SessionInv'
    BY <2>1 DEF Listen, ListenFails
  <2>2. CASE StopListen
    BY <2>2 DEF StopListen
  <2>3. ASSUME NEW c \in Credentials, SetCredentials(c) PROVE SessionInv'
    BY <2>3 DEF SetCredentials
  <2>3a. CASE SetCredentialsText
    BY <2>3a DEF SetCredentialsText
  <2>4. ASSUME NEW k \in Conns, NEW p \in Ports, Accept(k, p)
        PROVE  SessionInv'
    BY <2>4 DEF Accept
  <2>5. ASSUME NEW k \in Conns, NEW c \in Pairs, Login(k, c) PROVE SessionInv'
    BY <2>5 DEF Login, Close
  <2>6. ASSUME NEW k \in Conns, RefuseStatement(k) \/ Quit(k)
        PROVE  SessionInv'
    BY <2>6 DEF RefuseStatement, Quit, Close
  <2>7. CASE UNCHANGED vars
    BY <2>7 DEF vars
  <2> QED
    BY <2>1, <2>2, <2>3, <2>3a, <2>4, <2>5, <2>6, <2>7 DEF Next
<1>3. SessionInv => FailClosed
  BY DEF SessionInv, FailClosed
<1> QED
  BY <1>1, <1>2, <1>3, TypeCorrect, PTL DEF Spec
=============================================================================
