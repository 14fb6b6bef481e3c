------------------------------- MODULE Ledger -------------------------------
(***************************************************************************)
(* business_ledger_entries of one tenant: business transactions post       *)
(* entries, and finance users reverse one by an entry of the other side,   *)
(* after reading it without a lock.  A reversal has the amount of its      *)
(* entry and the transaction id REV_<id>; amounts are left out.            *)
(***************************************************************************)
EXTENDS Integers, FiniteSets

CONSTANTS
    Postings,  \* transaction ids of business transactions
    Actors,    \* who posts
    Clerks     \* reversal requests of finance users; also their bound

VARIABLES
    ledger,    \* the entries
    reversing  \* the entry each request has read, or where it is

ledgerVars == <<ledger, reversing>>

Accounts == {"LABOR_COST", "MATERIAL_COST", "REVENUE", "ACCOUNTS_RECEIVABLE"}

Entry == [posting : Postings, account : Accounts, side : {"DEBIT", "CREDIT"},
          reversal : BOOLEAN, actor : Actors \cup Clerks]

\* A request that has not begun, and one that was answered.
Unread == [reversal |-> FALSE]
Replied == [reversal |-> TRUE]

LedgerTypeOK ==
    /\ ledger    \in SUBSET Entry
    /\ reversing \in [Clerks -> Entry \cup {Unread, Replied}]

LedgerInit == ledger = {} /\ reversing = [c \in Clerks |-> Unread]

-----------------------------------------------------------------------------

\* Faulty variant: without the unique key.
AdmitsAll(e) == TRUE

\* unique (tenant_id, transaction_id, entry_type, account)
Admits(e) ==
    \A x \in ledger :
        <<x.posting, x.reversal, x.side, x.account>> # <<e.posting, e.reversal, e.side, e.account>>

\* INSERT ... ON CONFLICT DO NOTHING.
Post(e) == ledger' = IF Admits(e) THEN ledger \cup {e} ELSE ledger

\* ReverseLedgerEntry reads the entry: a reversal cannot be reversed, an entry
\* that was reversed before is not looked for.
BeginReverse(c, e) ==
    /\ reversing[c] = Unread
    /\ e \in ledger
    /\ reversing' = [reversing EXCEPT ![c] = IF e.reversal THEN Replied ELSE e]
    /\ UNCHANGED ledger

ReversalOf(e, c) ==
    [e EXCEPT !.side = IF @ = "DEBIT" THEN "CREDIT" ELSE "DEBIT",
              !.reversal = TRUE, !.actor = c]

\* The insert, which fails on the key.
FinishReverse(c) ==
    /\ reversing[c] \in Entry
    /\ LET r == ReversalOf(reversing[c], c) IN
       ledger' = IF Admits(r) THEN ledger \cup {r} ELSE ledger
    /\ reversing' = [reversing EXCEPT ![c] = Replied]

\* The process stops or the statement fails: the transaction is rolled back.
AbandonReverse(c) ==
    /\ reversing[c] \in Entry
    /\ reversing' = [reversing EXCEPT ![c] = Replied]
    /\ UNCHANGED ledger

-----------------------------------------------------------------------------

\* Entries of a posting, and of its reversal.
EntriesOf(p, reversal) == {e \in ledger : e.posting = p /\ e.reversal = reversal}

=============================================================================
