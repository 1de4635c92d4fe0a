--------------------------- MODULE DashboardClient ---------------------------
(***************************************************************************)
(* dashboard_client.py: what a call to the dashboard comes back with.  The *)
(* wire gives an HTTP answer, by its status and whether the body is JSON,  *)
(* or no answer at all; _request and _handle_response turn that into the   *)
(* parsed body ("value") or an exception, named here by its class without  *)
(* "Dashboard" and "Error" ("Base" for DashboardError itself).  The client *)
(* keeps no state; the modules of its callers react to the class.          *)
(***************************************************************************)

\* requests.Timeout, ConnectionError and any other RequestException.  The request
\* may have reached the dashboard all the same.
NoAnswer == {"timeout", "connection", "request"}

\* HTTP answers.  "2xx_text" is a success whose body is not JSON (a proxy's page);
\* "other" is every status the client does not know by number, 403 for one.
HttpAnswer == {"2xx", "2xx_text", "400", "401", "404", "409", "413", "429", "5xx",
               "other"}

Wire == HttpAnswer \cup NoAnswer

\* What a caller meets while the dashboard is out of reach, overloaded or failing.
Outage == {"timeout", "connection", "429", "5xx"}

\* Mutant: 429 has no exception of its own.
HandleResponseNo429(w) ==
    CASE w = "2xx" -> "value"
      [] w = "400" -> "Validation"
      [] w = "401" -> "Auth"
      [] w = "404" -> "NotFound"
      [] w = "409" -> "Conflict"
      [] w = "413" -> "PayloadTooLarge"
      [] w = "5xx" -> "Server"
      [] OTHER     -> "Base"

HandleResponse(w) ==
    CASE w = "2xx" -> "value"
      [] w = "400" -> "Validation"
      [] w = "401" -> "Auth"
      [] w = "404" -> "NotFound"
      [] w = "409" -> "Conflict"
      [] w = "413" -> "PayloadTooLarge"
      [] w = "429" -> "RateLimit"
      [] w = "5xx" -> "Server"
      [] OTHER     -> "Base"

\* _request: every transport failure is a network error.
Request(w) == IF w \in NoAnswer THEN "Network" ELSE HandleResponse(w)

\* The subclasses of DashboardRetriableError.
Retriable == {"Server", "Network", "RateLimit"}

=============================================================================
