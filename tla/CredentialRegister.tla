------------------------ MODULE CredentialRegister ------------------------
(***************************************************************************)
(* What tokenstore.FileStore promises: the credential file is one          *)
(* register.  A Save takes effect at one moment or not at all and may      *)
(* report an error either way; a Load is answered with the whole value of  *)
(* one moment.  A crash of the machine may take the register back to a     *)
(* value it has had since the last Save that reported success, never to a  *)
(* credential from before (SECURITY.md:25: "Credential replacement is      *)
(* atomic").  A register that a Save had to make is not firm: the first    *)
(* crash may still empty it, whatever Saves have reported success.         *)
(***************************************************************************)
CONSTANTS
    Saves,     \* calls of Save, each with a credential of its own
    Loads,     \* calls of Load
    Deletes,   \* calls of Delete
    Initial,   \* the credential stored at first
    NoFile     \* no credential

VARIABLES
    value,        \* the register
    recoverable,  \* the values a crash may leave in it
    firm,         \* the register was there before the Saves, or outlived a crash
    phase,        \* how far each call is
    answer        \* what a Load found

registerVars == <<value, recoverable, firm, phase, answer>>

Callers == Saves \cup Loads \cup Deletes

RegisterInit ==
    /\ value \in {Initial, NoFile}
    /\ recoverable = {value}
    /\ firm \in BOOLEAN /\ (value # NoFile => firm)
    /\ phase = [c \in Callers |-> "idle"]
    /\ answer = [l \in Loads |-> NoFile]

Reaches(c, p) == phase' = [phase EXCEPT ![c] = p]

BeginSave(s) ==
    /\ phase[s] = "idle"
    /\ Reaches(s, "pending")
    /\ UNCHANGED <<value, recoverable, firm, answer>>

Write(s) ==
    /\ phase[s] = "pending"
    /\ Reaches(s, "applied")
    /\ value' = s
    /\ recoverable' = recoverable \cup {s}
    /\ UNCHANGED <<firm, answer>>

\* Success is reported only once no earlier value can come back, but for the
\* emptiness of a register that is not firm.
AckSave(s) ==
    /\ phase[s] = "applied"
    /\ Reaches(s, "ok")
    /\ recoverable' = IF firm THEN {value} ELSE {value, NoFile}
    /\ UNCHANGED <<value, firm, answer>>

Read(l) ==
    /\ phase[l] = "idle"
    /\ value # NoFile
    /\ Reaches(l, "applied")
    /\ answer' = [answer EXCEPT ![l] = value]
    /\ UNCHANGED <<value, recoverable, firm>>

AckLoad(l) ==
    /\ phase[l] = "applied"
    /\ Reaches(l, "ok")
    /\ UNCHANGED <<value, recoverable, firm, answer>>

\* A Delete reports success whether or not there was a file.
Remove(d) ==
    /\ phase[d] = "idle"
    /\ Reaches(d, "ok")
    /\ value' = NoFile
    /\ recoverable' = recoverable \cup {NoFile}
    /\ UNCHANGED <<firm, answer>>

Fail(c) ==
    /\ phase[c] \in {"idle", "pending", "applied"}
    /\ Reaches(c, "error")
    /\ UNCHANGED <<value, recoverable, firm, answer>>

\* One process dies, or the machine does.
Die(c) ==
    /\ phase[c] \in {"pending", "applied"}
    /\ Reaches(c, "dead")
    /\ UNCHANGED <<value, recoverable, firm, answer>>

\* What a crash leaves in the register is there for good.
Restart ==
    /\ value' \in recoverable
    /\ recoverable' = {value'}
    /\ firm' \in BOOLEAN /\ (firm \/ value' # NoFile => firm')
    /\ phase' = [c \in Callers |-> IF phase[c] \in {"pending", "applied"}
                                   THEN "dead" ELSE phase[c]]
    /\ UNCHANGED answer

RegisterNext ==
    \/ \E s \in Saves : BeginSave(s) \/ Write(s) \/ AckSave(s)
    \/ \E l \in Loads : Read(l) \/ AckLoad(l)
    \/ \E d \in Deletes : Remove(d)
    \/ \E c \in Callers : Fail(c) \/ Die(c)
    \/ Restart

RegisterSpec == RegisterInit /\ [][RegisterNext]_registerVars
===========================================================================
