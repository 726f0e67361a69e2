------------------------------ MODULE Accounts ------------------------------
(***************************************************************************)
(* The auth service: Register inserts a row of users, whose name is        *)
(* unique, and answers with a token; Login selects by name and password.   *)
(* Every client has a password of its own, so a row is known by whose      *)
(* password it holds.  The server answers within its timeout, with an      *)
(* error if the handler is late; the insert then happens or not.           *)
(***************************************************************************)
EXTENDS Integers, FiniteSets

CONSTANTS
    Client,
    Name,         \* user names; a name stands for its e-mail address, too
    Nobody,
    AuthSecret,   \* what the auth service signs with
    NoToken,
    Limits        \* bounds of the model, see Gateway: clients, names, faults

VARIABLES
    owner,    \* owner[n]: whose password the row of n holds, or Nobody
    at,       \* at[c]: what c's request waits for
    about,    \* about[c]: the name it is about
    token,    \* token[c]: the token c holds
    acked,    \* history: acked[c]: names c was told he has registered
    open,     \* history: open[c]: names whose registration by c ended in an
              \* error that says nothing about the row
    limits,   \* the one of Limits this behaviour has; never changes
    faults    \* late answers, crashes, expiries

accountVars == <<owner, about, acked, open>>

Places == {"idle", "insert", "created", "sent", "stored"}
Token(by) == [by |-> by, expired |-> FALSE]

TypeOK ==
    /\ owner \in [Name -> Client \cup {Nobody}]
    /\ at \in [Client -> Places]
    /\ about \in [Client -> Name \cup {Nobody}]
    /\ \A c \in Client : at[c] \in {"insert", "created"} => about[c] \in Name
    /\ acked \in [Client -> SUBSET Name] /\ open \in [Client -> SUBSET Name]
    /\ limits \in Limits
    /\ faults \in 0..limits.faults

Init ==
    /\ owner = [n \in Name |-> Nobody]
    /\ at = [c \in Client |-> "idle"]
    /\ about = [c \in Client |-> Nobody]
    /\ token = [c \in Client |-> NoToken]
    /\ acked = [c \in Client |-> {}]
    /\ open = [c \in Client |-> {}]
    /\ limits \in Limits
    /\ faults = 0

Fault == faults < limits.faults /\ faults' = faults + 1
Goes(c, place) == at' = [at EXCEPT ![c] = place]
Holds(c, tok) == token' = [token EXCEPT ![c] = tok]

Register(c, n) ==
    /\ at[c] = "idle" /\ c \in limits.clients /\ n \in limits.names
    /\ Goes(c, "insert")
    /\ about' = [about EXCEPT ![c] = n]
    /\ UNCHANGED <<owner, token, acked, open, limits, faults>>

Owns(c, n) == owner' = [owner EXCEPT ![n] = c]

\* Mutant: there is no unique key; the later row is found.
FaultOverwrites(c) ==
    /\ at[c] = "insert"
    /\ Owns(c, about[c]) /\ Goes(c, "created")
    /\ UNCHANGED <<about, token, acked, open, limits, faults>>
\* Create: the unique key refuses a name that is taken, by c or another.
Insert(c) ==
    /\ at[c] = "insert"
    /\ \/ owner[about[c]] = Nobody /\ Owns(c, about[c]) /\ Goes(c, "created")
       \/ owner[about[c]] # Nobody /\ UNCHANGED owner /\ Goes(c, "idle")
    /\ UNCHANGED <<about, token, acked, open, limits, faults>>

\* GenerateToken and the answer.
Answer(c) ==
    /\ at[c] = "created"
    /\ Goes(c, "idle")
    /\ Holds(c, Token(AuthSecret))
    /\ acked' = [acked EXCEPT ![c] = @ \cup {about[c]}]
    /\ UNCHANGED <<owner, about, open, limits, faults>>

\* The answer is late or lost, before or after the insert.
NoAnswer(c) ==
    /\ at[c] \in {"insert", "created"}
    /\ Fault
    /\ \/ UNCHANGED owner
       \/ at[c] = "insert" /\ owner[about[c]] = Nobody /\ Owns(c, about[c])
    /\ open' = [open EXCEPT ![c] = @ \cup {about[c]}]
    /\ Goes(c, "idle")
    /\ UNCHANGED <<about, token, acked, limits>>

\* FindByUsernameAndPassword finds the row of c only by the password of c.
Login(c, n) ==
    /\ at[c] = "idle"
    /\ owner[n] = c
    /\ Holds(c, Token(AuthSecret))
    /\ UNCHANGED <<accountVars, at, limits, faults>>

AccountStep(c) ==
    \/ Insert(c) \/ Answer(c) \/ NoAnswer(c)
    \/ \E n \in Name : Register(c, n) \/ Login(c, n)

\* Who was told that he has registered a name has it; and nobody has a name
\* without having been told, but for an answer under way or one that got lost:
\* whom the unique key refuses after that may be refused for his own row.
AccountIsKnown ==
    \A c \in Client, n \in Name :
        /\ n \in acked[c] => owner[n] = c
        /\ owner[n] = c => \/ n \in acked[c] \cup open[c]
                           \/ at[c] = "created" /\ about[c] = n
=============================================================================
