------------------------------- MODULE Errors -------------------------------
(***************************************************************************)
(* How a response of the Technitium API becomes an error.  A message is    *)
(* the set of phrases it contains that the client looks for: those of its  *)
(* wording and those of the name the server quotes in it.                  *)
(***************************************************************************)
EXTENDS Naturals

Exists == {"already exists", "already installed"}
Missing == {"no such zone", "no such record", "no such app", "no such scope", "no reservation",
            "not installed", "not found", "does not exist"}
Kinds == {"record", "app", "reservation", "lease", "scope"}

\* The message text is the only signal, and all of it is searched.
classifyStatus(status, message) ==
  CASE status = "ok" -> "ok"
    [] status = "invalid-token" -> "ErrInvalidToken"
    [] OTHER ->
       IF "invalid username or password" \in message THEN "ErrInvalidCredentials"
       ELSE IF "already initialized" \in message THEN "ErrClusterAlreadyInitialized"
       ELSE IF message \cap Exists # {}
            THEN IF "record" \in message THEN "ErrRecordAlreadyExists"
                 ELSE IF "app" \in message THEN "ErrAppAlreadyInstalled" ELSE "ErrZoneAlreadyExists"
       ELSE IF message \cap Missing # {}
            THEN IF "record" \in message THEN "ErrRecordNotFound"
                 ELSE IF "app" \in message THEN "ErrAppNotInstalled"
                 ELSE IF message \cap {"reservation", "lease"} # {} THEN "ErrDHCPReservationNotFound"
                 ELSE IF "scope" \in message THEN "ErrDHCPScopeNotFound" ELSE "ErrZoneNotFound"
       ELSE "APIError"
=============================================================================
