------------------------------- MODULE Backend -------------------------------
(***************************************************************************)
(* The replicated application: SimpleDatabase of bmv2/scripts/backend.py,  *)
(* and what httpServer.py lets a browser submit to it.  A command is the   *)
(* JSON text of the request's arguments.                                   *)
(***************************************************************************)
EXTENDS Integers, Sequences

CONSTANTS
    Keys, Values,
    NoValue,        \* Python's None
    Keyless,        \* a request without the arguments execute() indexes
    Truncated       \* a command cut at 63 bytes: no longer JSON

Put == [action : {"put"}, key : Keys, value : Values]
Get == [action : {"get"}, key : Keys]

\* Everything the two HTTP handlers can produce once it has been packed.
HttpCommands == Put \cup Get \cup {Keyless, Truncated}

InitialDb == [k \in Keys |-> NoValue]

\* self.db after execute(cmd).
Execute(db, cmd) ==
    IF cmd.action = "put" THEN [db EXCEPT ![cmd.key] = cmd.value] ELSE db

\* What execute(cmd) passes to the Deferred.
Result(db, cmd) ==
    IF cmd.action = "put" THEN "Success" ELSE db[cmd.key]

\* self.db after execute has been called for each command of a sequence.
ExecuteAll(db, cmds) ==
    LET after[n \in 0 .. Len(cmds)] ==
            IF n = 0 THEN db ELSE Execute(after[n - 1], cmds[n])
    IN  after[Len(cmds)]

Results == {"Success", "Retry", NoValue} \cup Values
=============================================================================
