--------------------------- MODULE TransferCards ----------------------------
(***************************************************************************)
(* The card of a file in the chat (ui/chat_window.go): how the live entry  *)
(* that the user interface keeps for a file is changed by what it is told, *)
(* and how it is put together with the row of the files table for display. *)
(* Of an entry, the status, TransferCompleted and whether all its bytes    *)
(* are transferred are kept; names, paths, speeds and times are left out.  *)
(***************************************************************************)
EXTENDS Naturals

CONSTANT None   \* no live entry

Active == {"pending", "accepted"}
Terminal == {"rejected", "failed", "complete", "canceled"}

Card == [status : Active \cup Terminal, completed : BOOLEAN, bytes : {0, 1}]

Entry(status, bytes) == [status |-> status, completed |-> status \in Terminal, bytes |-> bytes]

\* upsertFileTransfer: an active status resets a completed entry, and keeps
\* its bytes only if it merely repeats that the transfer is accepted.
UpsertFileTransfer(existing, entry) ==
    LET keeps == \/ entry.status \in Terminal
                 \/ /\ entry.status = "accepted"
                    /\ existing.status = "accepted"
                    /\ ~ existing.completed IN
    IF existing = None THEN entry
    ELSE [entry EXCEPT !.completed = entry.status \in Terminal,
                       !.bytes = IF @ = 0 /\ keeps THEN existing.bytes ELSE @]

\* handleFileProgress: the row overrules what the event says, unless it is
\* still pending and bytes have been transferred.
HandleFileProgress(event, row) ==
    [event EXCEPT !.status = IF row = "pending" /\ event.bytes > 0 THEN @ ELSE row,
                  !.completed = @ \/ row \in Terminal]

\* chatFileEntryFromMetadata.
FromMetadata(row) == Entry(row, IF row = "complete" THEN 1 ELSE 0)

\* mergeChatFileEntry: an active live entry decides, a row that has ended
\* decides over a live entry that has ended too.
MergeChatFileEntry(row, live) ==
    LET base == FromMetadata(row) IN
    IF live = None THEN base
    ELSE IF live.status \in Active THEN live
    ELSE [status |-> IF row \in Terminal THEN row ELSE live.status,
          completed |-> TRUE,
          bytes |-> IF live.bytes > base.bytes THEN live.bytes ELSE base.bytes]

\* canCancel and canRetry of a card of a file that is sent.
CanCancel(card) == ~ card.completed /\ card.status \in Active
CanRetry(card) == card.status \in Terminal \ {"complete"}
=============================================================================
