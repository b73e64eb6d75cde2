----------------------------- MODULE ContextFrames -----------------------------
(***************************************************************************)
(* The ambient context of an entry (a request, a task, a command): the     *)
(* frame that run() makes current for the synchronous part of a call, and, *)
(* where AsyncLocalStorage is installed, the frame that asynchronous       *)
(* continuations carry along.  The event loop runs one turn at a time; a   *)
(* turn that suspends leaves every run() it is inside of, and each of      *)
(* those restores the synchronous frame it found.                          *)
(*                                                                         *)
(* A frame is the entry whose values it holds, its mode, and the value of  *)
(* the one storage key that is modelled (0: not set).  Where DefaultMode   *)
(* is "sync" no carrier is installed: every mode is "sync" and nothing is  *)
(* ever carried.                                                           *)
(***************************************************************************)
EXTENDS Naturals

CONSTANTS
  Nobody,
  DefaultMode         \* defaultContextMode(): "async" where a carrier is installed

VARIABLES
  synchronousFrame,   \* the module variable of the same name
  carried             \* asyncCarrier.get() in the turn that runs

NoFrame == [req |-> Nobody, mode |-> "none", storage |-> 0]

CurrentFrame ==
  IF synchronousFrame # NoFrame THEN synchronousFrame
  ELSE IF carried.mode = "async" THEN carried ELSE NoFrame

HasContext == CurrentFrame # NoFrame

(* What continuations of fn carry after captureFrame(frame).run(fn) in a   *)
(* place that carries parent: a sync frame masks an async one.             *)
Carried(parent, frame) ==
  IF parent # frame /\ "async" \in {frame.mode, parent.mode} THEN frame ELSE parent

(* captureFrame(frame).run(fn), as fn sees it, in a turn that carries      *)
(* parent.                                                                 *)
RunFrom(parent, frame) ==
  /\ synchronousFrame' = frame
  /\ carried' = Carried(parent, frame)

Run(frame) == RunFrom(carried, frame)

(* Mutant of EndTurn: runSynchronously() restores the frame only if fn     *)
(* returns normally, and a turn ends in the middle of fn.                  *)
EndTurnUnrestored == UNCHANGED synchronousFrame /\ carried' = NoFrame

(* The turn ends: runSynchronously() restores the frame it found, through  *)
(* every run() the turn is in.                                             *)
EndTurn == synchronousFrame' = NoFrame /\ carried' = NoFrame

(* A continuation starts a turn.                                           *)
BeginTurn(frame) == carried' = frame /\ UNCHANGED synchronousFrame

(* runInStorageContext(key, value, fn): fn runs with the value, and shares *)
(* the values of the entry; without a context it shares nothing.           *)
WithStorage(value) ==
  IF HasContext THEN [CurrentFrame EXCEPT !.storage = value]
  ELSE [NoFrame EXCEPT !.mode = DefaultMode, !.storage = value]
=============================================================================
