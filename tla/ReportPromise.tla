--------------------------- MODULE ReportPromise ----------------------------
(***************************************************************************)
(* What the agent promises for its reports, whatever crashes, retries and  *)
(* outages happen: at-least-once delivery ("the at-least-once invariant",  *)
(* report_submission.py:104-106).  A report once kept on disk is owed to   *)
(* the dashboard, and the agent lets go of it only after the dashboard has *)
(* stored or refused it, or by setting the damaged file aside.             *)
(***************************************************************************)
CONSTANT Report

VARIABLES
    owed,      \* reports the agent keeps and still has to deliver
    aside,     \* reports set aside as unreadable
    done,      \* reports the agent has let go of
    stored,    \* reports the dashboard has stored
    refused    \* reports the dashboard will never take

pvars == <<owed, aside, done, stored, refused>>

PInit ==
    /\ owed = {} /\ aside = {} /\ done = {}
    /\ stored = {} /\ refused = {}

Known == owed \cup aside \cup done

Persist(r) ==
    /\ r \notin Known
    /\ owed' = owed \cup {r}
    /\ UNCHANGED <<aside, done, stored, refused>>

\* Nothing reaches the dashboard that was not kept first.
Store(r) ==
    /\ r \in Known
    /\ stored' = stored \cup {r}
    /\ UNCHANGED <<owed, aside, done, refused>>

Refuse(r) ==
    /\ r \in owed
    /\ refused' = refused \cup {r}
    /\ UNCHANGED <<owed, aside, done, stored>>

LetGo(r) ==
    /\ r \in owed \cap (stored \cup refused)
    /\ owed' = owed \ {r}
    /\ done' = done \cup {r}
    /\ UNCHANGED <<aside, stored, refused>>

SetAside(r) ==
    /\ r \in owed
    /\ owed' = owed \ {r}
    /\ aside' = aside \cup {r}
    /\ UNCHANGED <<done, stored, refused>>

PNext ==
    \E r \in Report :
        Persist(r) \/ Store(r) \/ Refuse(r) \/ LetGo(r) \/ SetAside(r)

PSpec == PInit /\ [][PNext]_pvars

=============================================================================
