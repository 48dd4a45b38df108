------------------------------ MODULE Libraries ------------------------------
(* The parts of the program that its listeners do not call: the HTTP client *)
(* and the functions on dates, texts, frames and configuration files, which *)
(* are used by what is built on the program.  A behaviour is about one part: *)
(* the client at work, or an input that grows step by step, a day, a byte   *)
(* or a character at a time, so that every input within the bounds is met.  *)
EXTENDS RestClient, Dates, Texts, Checksum, ConfigFile

VARIABLE subject     \* the part this behaviour is about

dateVars == <<date, day>>
libraryVars == <<clientVars, dateVars, textVars, frameVars, fileVars, subject>>

Init ==
  /\ subject \in {"client", "date", "text", "frame", "file"}
  /\ ClientInit /\ TextInit /\ FrameInit /\ FileInit
  /\ CalendarInit /\ (subject = "date" <=> date # NoDate)

ClientWorks ==
  /\ subject = "client" /\ ClientNext
  /\ UNCHANGED <<dateVars, textVars, frameVars, fileVars, subject>>

MoreDays ==
  /\ subject = "date" /\ NextDay
  /\ UNCHANGED <<clientVars, textVars, frameVars, fileVars, subject>>

TextIsRead ==
  /\ subject = "text" /\ TextNext
  /\ UNCHANGED <<clientVars, dateVars, frameVars, fileVars, subject>>

FileIsLoaded ==
  /\ subject = "file" /\ FileNext
  /\ UNCHANGED <<clientVars, dateVars, textVars, frameVars, subject>>

FrameIsChecked ==
  /\ subject = "frame" /\ FrameNext
  /\ UNCHANGED <<clientVars, dateVars, textVars, fileVars, subject>>

Next == ClientWorks \/ MoreDays \/ TextIsRead \/ FileIsLoaded \/ FrameIsChecked

Spec == Init /\ [][Next]_libraryVars
=============================================================================
