------------------------------ MODULE Server ------------------------------
(***************************************************************************)
(* The TCP server: LISTEN / STOP on the LISTENER handle, the accept        *)
(* threads, SET_CREDENTIALS, and serve_client's login protocol on each     *)
(* connection.                                                             *)
(*                                                                         *)
(* start_server keeps the listening socket in the accept thread and stores *)
(* a clone of it in LISTENER; LISTEN and STOP only drop the clone.         *)
(* Every connection copies the credentials once, when it is accepted.      *)
(***************************************************************************)
EXTENDS Naturals

CONSTANTS Ports,
          Conns,         \* connections a client may make, each used once
          Credentials,   \* user / password pairs a client may present
          Empty,         \* the pair ("", ""): no credentials configured
          NoPort         \* LISTENER holds nothing

ASSUME ServerAssumption ==
    /\ Empty \notin Credentials
    /\ NoPort \notin Ports

VARIABLES require_auth,  \* listener_require_auth in a3sql.toml, read once
          handle,        \* LISTENER: the port of the clone, or NoPort
          accepting,     \* ports with a live accept thread
          creds,         \* CREDENTIALS
          issued,        \* every pair that was ever configured
          phase,         \* connection -> "new", "anonymous", "served", "closed"
          expected,      \* connection -> its copy of the credentials
          presented      \* connection -> the pair its LOGIN was accepted with

vars == <<require_auth, handle, accepting, creds, issued, phase, expected,
          presented>>
sessions == <<phase, expected, presented>>

Pairs == Credentials \cup {Empty}

TypeOK ==
    /\ require_auth \in BOOLEAN
    /\ handle \in Ports \cup {NoPort}
    /\ accepting \subseteq Ports
    /\ creds \in Pairs
    /\ issued \subseteq Pairs
    /\ phase \in [Conns -> {"new", "anonymous", "served", "closed"}]
    /\ expected \in [Conns -> Pairs]
    /\ presented \in [Conns -> Pairs]

Init ==
    /\ require_auth \in BOOLEAN
    /\ handle = NoPort /\ accepting = {}
    /\ creds = Empty /\ issued = {}
    /\ phase = [k \in Conns |-> "new"]
    /\ expected = [k \in Conns |-> Empty]
    /\ presented = [k \in Conns |-> Empty]

-----------------------------------------------------------------------------
(* handle_listen drops the old handle, then binds.  try_bind gives up after *)
(* six attempts if the port stays taken: by another program, or by an      *)
(* accept thread of this one.                                              *)
Listen(p) ==
    /\ p \notin accepting
    /\ handle' = p /\ accepting' = accepting \cup {p}
    /\ UNCHANGED <<require_auth, creds, issued, sessions>>

ListenFails(p) ==
    /\ handle' = NoPort
    /\ UNCHANGED <<require_auth, accepting, creds, issued, sessions>>

(* handle_stop_listen, also the first step of graceful_shutdown. *)
StopListen ==
    /\ handle' = NoPort
    /\ UNCHANGED <<require_auth, accepting, creds, issued, sessions>>

(* set_credentials with its values passed as arguments (RVExtensionArgs). *)
SetCredentials(c) ==
    /\ creds' = c /\ issued' = issued \cup {c}
    /\ UNCHANGED <<require_auth, handle, accepting, sessions>>

(* The same command as one line of text, from a connection or the REPL:    *)
(* there are no arguments, and the rest of the line is not read.           *)
SetCredentialsText ==
    /\ creds' = Empty
    /\ UNCHANGED <<require_auth, handle, accepting, issued, sessions>>

(* Mutant: a login is asked for only when credentials are configured,      *)
(* whatever listener_require_auth says.                                    *)
AcceptIgnoresConfig(k, p) ==
    /\ p \in accepting /\ phase[k] = "new"
    /\ expected' = [expected EXCEPT ![k] = creds]
    /\ phase' = [phase EXCEPT ![k] = IF creds # Empty THEN "anonymous" ELSE "served"]
    /\ UNCHANGED <<require_auth, handle, accepting, creds, issued, presented>>

(* The accept thread of p takes a connection and starts serve_client. *)
Accept(k, p) ==
    /\ p \in accepting /\ phase[k] = "new"
    /\ expected' = [expected EXCEPT ![k] = creds]
    /\ phase' = [phase EXCEPT ![k] =
                    IF creds # Empty \/ require_auth THEN "anonymous" ELSE "served"]
    /\ UNCHANGED <<require_auth, handle, accepting, creds, issued, presented>>

Close(k) ==
    /\ phase' = [phase EXCEPT ![k] = "closed"]
    /\ UNCHANGED <<require_auth, handle, accepting, creds, issued, expected,
                   presented>>

(* LOGIN: one attempt, against the copy; with no credentials configured it *)
(* cannot succeed.                                                         *)
Login(k, c) ==
    /\ phase[k] = "anonymous"
    /\ IF expected[k] # Empty /\ c = expected[k]
       THEN /\ phase' = [phase EXCEPT ![k] = "served"]
            /\ presented' = [presented EXCEPT ![k] = c]
            /\ UNCHANGED <<require_auth, handle, accepting, creds, issued,
                           expected>>
       ELSE Close(k)

(* Any other line before a successful LOGIN ends the connection. *)
RefuseStatement(k) == phase[k] = "anonymous" /\ Close(k)

(* QUIT, EXIT, end of file or a read error. *)
Quit(k) == phase[k] \in {"anonymous", "served"} /\ Close(k)

Next ==
    \/ \E p \in Ports : Listen(p) \/ ListenFails(p)
    \/ StopListen
    \/ \E c \in Credentials : SetCredentials(c)
    \/ SetCredentialsText
    \/ \E k \in Conns :
        \/ \E p \in Ports : Accept(k, p)
        \/ \E c \in Pairs : Login(k, c)
        \/ RefuseStatement(k) \/ Quit(k)

Spec == Init /\ [][Next]_vars

-----------------------------------------------------------------------------
(* Fail-closed: a connection whose statements are dispatched has presented *)
(* the very credentials in force when it was accepted, and an operator did *)
(* configure them; or none were configured and none are required.  Changes *)
(* of the credentials while it is connected make no difference.            *)
FailClosed ==
    \A k \in Conns : phase[k] = "served" =>
        \/ presented[k] = expected[k] /\ presented[k] \in issued
        \/ expected[k] = Empty /\ ~require_auth

=============================================================================
