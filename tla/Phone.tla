------------------------------- MODULE Phone -------------------------------
(***************************************************************************)
(* The number somebody attached to an account:                             *)
(* src/server/src/routes/phone.ts with services/phone.ts and the unique    *)
(* indexes of migrations/030_phone_links.sql.                              *)
(*                                                                         *)
(* A request reads, waits for the text to be sent or for the code's digest *)
(* to be computed, and writes.  Two statements of one transaction are two  *)
(* steps where the second one looks again.  Numbers are compared by their  *)
(* digests.  A refusal changes nothing and is not an action.               *)
(***************************************************************************)
EXTENDS Naturals

CONSTANTS
    Accounts,     \* people
    Numbers,      \* their numbers
    None,         \* no number
    MaxSends,     \* PHONE_LIMITS.maxSends
    MaxAttempts,  \* PHONE_LIMITS.maxAttempts
    Requests,     \* concurrent requests
    MaxTexts      \* bound: texts ever sent

VARIABLES
    pending,  \* the row of phone_verifications that is not consumed
    link,     \* the row of phone_links
    req,      \* requests between two of their steps
    texts,    \* texts[c]: the number that code c was sent to
    \* history
    agreed,   \* the number an account last asked to be found by
    crossed   \* accounts whose code was put on a row of another number

vars == <<pending, link, req, texts, agreed, crossed>>

Texts == 1..MaxTexts
Codes == {c \in Texts : texts[c] # None}

\* Rows are told apart by the first code they were made for.
NoRow  == [row |-> 0, number |-> None, code |-> 0, attempts |-> 0, sends |-> 0, expired |-> FALSE]
NoLink == [number |-> None, discoverable |-> FALSE, code |-> 0]
Idle   == [op |-> "idle", by |-> CHOOSE a \in Accounts : TRUE, number |-> None,
           row |-> 0, code |-> 0]

\* POST discover: whom a number leads to, for the one who asks.  How often it may
\* be asked in a day is left out.
Found(n, asker) == {a \in Accounts \ {asker} : link[a].number = n /\ link[a].discoverable}

TypeOK ==
    /\ pending \in [Accounts ->
          [row : 0..MaxTexts, number : Numbers \cup {None}, code : 0..MaxTexts,
           attempts : Nat, sends : Nat, expired : BOOLEAN]]
    /\ link \in [Accounts -> [number : Numbers \cup {None}, discoverable : BOOLEAN,
                              code : 0..MaxTexts]]
    /\ \A a, b \in Accounts : link[a].number = link[b].number => a = b \/ link[a] = NoLink
    /\ req \in [Requests -> [op : {"idle", "send", "consume", "upsert", "wrong", "right"},
                             by : Accounts, number : Numbers \cup {None},
                             row : 0..MaxTexts, code : 0..MaxTexts]]
    /\ texts \in [Texts -> Numbers \cup {None}]
    /\ agreed \in [Accounts -> Numbers \cup {None}] /\ crossed \subseteq Accounts

Init ==
    /\ pending = [a \in Accounts |-> NoRow] /\ link = [a \in Accounts |-> NoLink]
    /\ req = [r \in Requests |-> Idle] /\ texts = [c \in Texts |-> None]
    /\ agreed = [a \in Accounts |-> None] /\ crossed = {}

-----------------------------------------------------------------------------
(* Asking for a code *)

\* POST verifications, its checks.  The interval between two texts is not
\* counted: any time may have passed.
Start(r, a, n) ==
    /\ req[r] = Idle /\ link[a].number # n
    /\ pending[a].number = n => pending[a].sends < MaxSends
    /\ req' = [req EXCEPT ![r] = [Idle EXCEPT !.op = "send", !.by = a, !.number = n]]
    /\ UNCHANGED <<pending, link, texts, agreed, crossed>>

\* The text goes out, or the provider refuses and nothing is stored.
Send(r) ==
    /\ req[r].op = "send"
    /\ \/ \E c \in Texts :
            /\ texts[c] = None /\ \A b \in Texts : b < c => texts[b] # None
            /\ texts' = [texts EXCEPT ![c] = req[r].number]
            /\ req' = [req EXCEPT ![r].op = "consume", ![r].code = c]
       \/ req' = [req EXCEPT ![r] = Idle] /\ UNCHANGED texts
    /\ UNCHANGED <<pending, link, agreed, crossed>>

\* The transaction's first statement: which row it will have consumed.
StartConsume(r) ==
    LET p == pending[req[r].by] IN
    /\ req[r].op = "consume"
    /\ req' = [req EXCEPT ![r].op = "upsert",
                          ![r].row = IF p.number # req[r].number THEN p.row ELSE 0]
    /\ UNCHANGED <<pending, link, texts, agreed, crossed>>

\* Its second one, and the commit.  A row that somebody has put there since is
\* kept with its number, and gets the new code.
StartUpsert(r) ==
    LET a == req[r].by
        p == pending[a]
        fresh == p.row \in {0, req[r].row} IN
    /\ req[r].op = "upsert"
    /\ pending' = [pending EXCEPT ![a] =
         IF fresh
         THEN [NoRow EXCEPT !.row = req[r].code, !.number = req[r].number,
                            !.code = req[r].code, !.sends = 1]
         ELSE [p EXCEPT !.code = req[r].code, !.attempts = 0, !.sends = @ + 1,
                        !.expired = FALSE]]
    /\ crossed' = IF ~ fresh /\ p.number # req[r].number THEN crossed \cup {a} ELSE crossed
    /\ req' = [req EXCEPT ![r] = Idle]
    /\ UNCHANGED <<link, texts, agreed>>

Expire(a) ==
    /\ pending[a] # NoRow /\ ~ pending[a].expired
    /\ pending' = [pending EXCEPT ![a].expired = TRUE]
    /\ UNCHANGED <<link, req, texts, agreed, crossed>>

-----------------------------------------------------------------------------
(* Entering it *)

\* POST phone: the row as it is read, and whether the code is the row's.
Verify(r, a, c) ==
    LET p == pending[a] IN
    /\ req[r] = Idle /\ c \in Codes
    /\ p # NoRow /\ ~ p.expired /\ p.attempts < MaxAttempts
    /\ req' = [req EXCEPT ![r] = [op |-> IF c = p.code THEN "right" ELSE "wrong", by |-> a,
                                  number |-> p.number, row |-> p.row, code |-> c]]
    /\ UNCHANGED <<pending, link, texts, agreed, crossed>>

VerifyWrong(r) ==
    LET a == req[r].by IN
    /\ req[r].op = "wrong"
    /\ pending' = IF pending[a].row = req[r].row
                  THEN [pending EXCEPT ![a].attempts = @ + 1] ELSE pending
    /\ req' = [req EXCEPT ![r] = Idle]
    /\ UNCHANGED <<link, texts, agreed, crossed>>

\* The row is consumed, the last holder of the number loses it, and consent
\* starts anew; mine says what becomes of the account's own row.
VerifyWith(r, mine) ==
    LET a == req[r].by
        n == req[r].number IN
    /\ req[r].op = "right"
    /\ pending' = IF pending[a].row = req[r].row
                  THEN [pending EXCEPT ![a] = NoRow] ELSE pending
    /\ link' = [b \in Accounts |-> IF b = a THEN mine
                                   ELSE IF link[b].number = n THEN NoLink ELSE link[b]]
    /\ req' = [req EXCEPT ![r] = Idle]
    /\ UNCHANGED <<texts, agreed, crossed>>

\* Mutant of VerifyRight: a changed number keeps the consent of the old one.
VerifyRightKeeping(r) ==
    VerifyWith(r, [number |-> req[r].number, code |-> req[r].code,
                   discoverable |-> link[req[r].by].discoverable])

VerifyRight(r) ==
    VerifyWith(r, [number |-> req[r].number, code |-> req[r].code, discoverable |-> FALSE])

\* Two accounts prove one number at once: the unique index refuses the second,
\* and its transaction is undone.
VerifyUndone(r) ==
    /\ req[r].op = "right"
    /\ \E b \in Accounts \ {req[r].by} : link[b].number = req[r].number
    /\ req' = [req EXCEPT ![r] = Idle]
    /\ UNCHANGED <<pending, link, texts, agreed, crossed>>

-----------------------------------------------------------------------------
(* The link *)

\* PUT discoverable, or 404.
SetDiscoverable(a, v) ==
    /\ link[a] # NoLink
    /\ link' = [link EXCEPT ![a].discoverable = v]
    /\ agreed' = [agreed EXCEPT ![a] = IF v THEN link[a].number ELSE None]
    /\ UNCHANGED <<pending, req, texts, crossed>>

\* DELETE phone.  A code that has been read goes on.
Remove(a) ==
    /\ link[a] # NoLink \/ pending[a] # NoRow
    /\ link' = [link EXCEPT ![a] = NoLink]
    /\ pending' = [pending EXCEPT ![a] = NoRow]
    /\ UNCHANGED <<req, texts, agreed, crossed>>

Next ==
    \/ \E r \in Requests, a \in Accounts :
         \/ \E n \in Numbers : Start(r, a, n)
         \/ \E c \in Texts : Verify(r, a, c)
    \/ \E r \in Requests :
         \/ Send(r) \/ StartConsume(r) \/ StartUpsert(r)
         \/ VerifyWrong(r) \/ VerifyRight(r) \/ VerifyUndone(r)
    \/ \E a \in Accounts :
         \/ Expire(a) \/ Remove(a)
         \/ \E v \in BOOLEAN : SetDiscoverable(a, v)

Spec == Init /\ [][Next]_vars

-----------------------------------------------------------------------------
(* What is promised *)

\* A number is attached only to an account that was sent a code on that number
\* and entered it, and is found only by the account's own wish, expressed for
\* this number ("a changed number is not covered by the consent given for the
\* old one", routes/phone.ts:241) -- whatever verifications, removals and
\* accounts race for it.  The exception is two requests for different numbers
\* whose transactions overlap: the code of one lands on the row of the other.
NumberIsProved ==
    /\ \A a \in Accounts : link[a] # NoLink =>
         texts[link[a].code] = link[a].number \/ a \in crossed
    /\ \A n \in Numbers, b \in Accounts : \A a \in Found(n, b) : agreed[a] = n

=============================================================================
