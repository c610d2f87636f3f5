------------------------------ MODULE MC_Http ------------------------------
(* Requests and responses that differ in how bodies and connections end.   *)
EXTENDS Http

Ask(method, version, token, body) ==
    [method |-> method, version |-> version, token |-> token, body |-> body]
Say(status, body, n, fails) == [status |-> status, body |-> body, n |-> n, fails |-> fails]

MCRequests ==
    { Ask("GET", 11, "none", "length"), Ask("GET", 11, "close", "chunked"),
      Ask("HEAD", 11, "none", "none"), Ask("GET", 10, "keep-alive", "none"),
      Ask("GET", 11, "none", "both") }
MCResponses ==
    { Say("OK", "file", 1, FALSE), Say("OK", "stream", 1, TRUE),
      Say("OK", "stream", 1, FALSE), Say("NO_CONTENT", "list", 1, FALSE) }
=============================================================================
