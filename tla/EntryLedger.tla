------------------------------ MODULE EntryLedger -----------------------------
(***************************************************************************)
(* What the entry store promises, whatever the tabs do: its contents       *)
(* change by whole transactions only, and a transaction is one of three    *)
(* things: a check-in that deletes the row of one key or gives it a row    *)
(* newer than all others, an import that yields exactly the merge or the   *)
(* replacement with a backup file, or the return to contents the table     *)
(* really had just before an import of the tab that rolls back.            *)
(***************************************************************************)
EXTENDS EntryTable

CONSTANTS
    Tabs,        \* browser tabs of the origin
    Payloads     \* backup files that may be imported

VARIABLES
    table,       \* contents of the table
    rollback     \* rollback[t]: pre-import contents that tab t still holds

ledgerVars == <<table, rollback>>

LedgerInit ==
    /\ table \in Table
    /\ rollback = [t \in Tabs |-> {}]

RewriteOneRow ==
    /\ \E k \in Keys :
           /\ \A other \in Keys \ {k} : table'[other] = table[other]
           /\ \/ table'[k] = NoRow
              \/ \A old \in Keys : table'[k].at > table[old].at
    /\ table' \in Table
    /\ UNCHANGED rollback

ImportFile(t) ==
    /\ \E p \in Payloads, mode \in ImportModes :
           table' = ImportResult(table, p, mode)
    /\ \E held \in SUBSET (rollback[t] \cup {table}) :
           rollback' = [rollback EXCEPT ![t] = held]

RollBack(t) ==
    /\ table' \in rollback[t]
    /\ UNCHANGED rollback

Forget(t) ==
    /\ \E held \in SUBSET rollback[t] :
           rollback' = [rollback EXCEPT ![t] = held]
    /\ UNCHANGED table

LedgerNext ==
    \/ RewriteOneRow
    \/ \E t \in Tabs : ImportFile(t) \/ RollBack(t) \/ Forget(t)

LedgerSpec == LedgerInit /\ [][LedgerNext]_ledgerVars
===============================================================================
