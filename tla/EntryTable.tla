------------------------------ MODULE EntryTable ------------------------------
(***************************************************************************)
(* The dailyEntries table as a value: one row per compound key             *)
(* [date+sectorId] and the pure functions that an import computes from it. *)
(*                                                                         *)
(* The table's autoincrement id is left out: the unique compound index     *)
(* makes [date+sectorId] a key, and the id only tells put() which row to   *)
(* overwrite.  A key without a row holds NoRow, which is also what the     *)
(* 'unmarked' status means to every reader.                                *)
(***************************************************************************)
EXTENDS Naturals

CONSTANTS
    Keys,        \* compound keys, date:sectorId
    Statuses,    \* stored statuses: nominal, degraded
    Unmarked     \* the UI status that stands for "no row"

ASSUME UnmarkedAssumption == Unmarked \notin Statuses

UiStatuses == Statuses \cup {Unmarked}

(***************************************************************************)
(* A row carries its status and its updatedAt stamp.  Stamp 0 is older     *)
(* than every stamp of this session: rows of earlier sessions and rows     *)
(* that come from a file carry it.                                         *)
(***************************************************************************)
Row == [status : UiStatuses, at : Nat]

NoRow == [status |-> Unmarked, at |-> 0]

Table == [Keys -> Row]

EmptyTable == [k \in Keys |-> NoRow]

(***************************************************************************)
(* The row setDailyStatus means to leave behind, and reads back.           *)
(***************************************************************************)
WrittenRow(status, at) ==
    IF status = Unmarked THEN NoRow ELSE [status |-> status, at |-> at]

(***************************************************************************)
(* A backup file's entries: statuses for some of the keys, at most one     *)
(* entry for a key (the import schema rejects duplicates).                 *)
(***************************************************************************)
Payload == UNION {[D -> Statuses] : D \in SUBSET Keys}

ImportModes == {"merge", "replace"}

FileRow(status) == [status |-> status, at |-> 0]

(***************************************************************************)
(* The table after the import's writes: replace clears it first, merge     *)
(* keeps the rows the file does not name.                                  *)
(***************************************************************************)
ImportResult(table, payload, mode) ==
    [k \in Keys |->
        IF k \in DOMAIN payload THEN FileRow(payload[k])
        ELSE IF mode = "replace" THEN NoRow
        ELSE table[k]]
===============================================================================
