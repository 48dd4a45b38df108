------------------------------ MODULE ConfigFile ------------------------------
(* CConfigFile and what OConfig takes from it (core/ConfigFile.cpp,         *)
(* core/Config.cpp).  A file is a sequence of characters, and a character   *)
(* is what the functions tell apart: "#", "=", a blank ("SP"), "CR", "LF",  *)
(* or a letter of a key or a value.  A behaviour makes a file, character by *)
(* character, and loads it, line by line.                                    *)
EXTENDS Integers, Sequences, FiniteSetsExt

CONSTANTS FileChars, MaxFile    \* characters, and length

ASSUME FileAssumption ==
  FileChars \subseteq {"k", "v", "=", "#", "SP", "CR", "LF"} /\ MaxFile \in Nat

VARIABLES
  file,
  readTo,       \* the characters that std::getline has taken
  m_mapConfig

fileVars == <<file, readTo, m_mapConfig>>

-----------------------------------------------------------------------------
Others(s, c) == {i \in DOMAIN s : s[i] # c}

(* erase up to find_first_not_of(c), and from find_last_not_of(c) + 1 on.  *)
StripFront(s, c) == IF Others(s, c) = {} THEN <<>> ELSE SubSeq(s, Min(Others(s, c)), Len(s))
StripBack(s, c) == IF Others(s, c) = {} THEN <<>> ELSE SubSeq(s, 1, Max(Others(s, c)))

(* Mutant: the carriage return of a Windows line stays.                    *)
StringTrimBlanks(s) == StripBack(StripFront(s, "SP"), "SP")

(* StringTrim: blanks first, and then a carriage return, which hides the   *)
(* blanks before it; a line feed is never left in a line.                  *)
StringTrim(s) == StripBack(StripBack(StripFront(s, "SP"), "SP"), "CR")

Equals(line) == {i \in DOMAIN line : line[i] = "="}
IsItem(line) == line # <<>> /\ line[1] # "#" /\ Equals(line) # {}

Item(line) ==
  LET found == Min(Equals(line))
  IN  [key |-> StringTrim(SubSeq(line, 1, found - 1)),
       value |-> StringTrim(SubSeq(line, found + 1, Len(line)))]

(* m_mapConfig.insert keeps what is there.                                 *)
Insert(config, line) ==
  IF ~IsItem(line) THEN config
  ELSE LET item == Item(line) IN
       [key \in DOMAIN config \cup {item.key} |->
          IF key \in DOMAIN config THEN config[key] ELSE item.value]

-----------------------------------------------------------------------------
FileInit == file = <<>> /\ readTo = 0 /\ m_mapConfig = <<>>

MoreFile ==
  /\ readTo = 0 /\ Len(file) < MaxFile
  /\ \E c \in FileChars : file' = Append(file, c)
  /\ UNCHANGED <<readTo, m_mapConfig>>

(* std::getline: the characters from position i to the next line feed.     *)
LineEnd(i) == Min({j \in i .. Len(file) : file[j] = "LF"} \cup {Len(file) + 1})
LineAt(i) == SubSeq(file, i, LineEnd(i) - 1)

(* The loop of Load.  A file that cannot be opened is an empty one, and is *)
(* no failure.                                                              *)
LoadLine ==
  /\ readTo < Len(file)
  /\ m_mapConfig' = Insert(m_mapConfig, LineAt(readTo + 1))
  /\ readTo' = LineEnd(readTo + 1)
  /\ UNCHANGED file

FileNext == MoreFile \/ LoadLine

FileSpec == FileInit /\ [][FileNext]_fileVars

(* Get and the tests in OConfig::Load: a key that is missing and one with  *)
(* an empty value both leave the default.                                   *)
Setting(config, key, default) ==
  IF key \in DOMAIN config /\ config[key] # <<>> THEN config[key] ELSE default

-----------------------------------------------------------------------------
(* The lines that have been read, by their first positions.                 *)
LinesRead == {i \in 1 .. readTo : i = 1 \/ file[i - 1] = "LF"}
Items == {i \in LinesRead : i <= Len(file) /\ IsItem(LineAt(i))}
Sets(i, key) == Item(LineAt(i)).key = key

(* A key has the value of the first line that sets it, whatever lines      *)
(* follow, and the default if none does or its value is empty.              *)
Default == <<"default">>

FirstSettingStands ==
  /\ \A i \in Items :
       LET item == Item(LineAt(i)) IN
       (\A j \in Items : Sets(j, item.key) => i <= j) =>
         Setting(m_mapConfig, item.key, Default) =
           IF item.value = <<>> THEN Default ELSE item.value
  /\ \A key \in DOMAIN m_mapConfig : \E i \in Items : Sets(i, key)

(* A line of a file written on Windows ends with a carriage return, and    *)
(* sets the same as without, but for one whose value has a blank after it: *)
(* the blank is not trimmed, and the level "INFO " is none.                 *)
BlankAfterValue(line) == line[Len(line)] = "SP" /\ Item(line).value # <<>>

LineEndsAgree ==
  \A i \in LinesRead :
    LET line == LineAt(i)  windows == Append(line, "CR") IN
    i <= Len(file) /\ "CR" \notin {line[j] : j \in DOMAIN line} =>
      /\ IsItem(windows) <=> IsItem(line)
      /\ IsItem(line) => (Item(windows) = Item(line) <=> ~BlankAfterValue(line))

(* What a file sets depends neither on the platform that wrote it nor on   *)
(* what follows.                                                           *)
ConfigSound == LineEndsAgree /\ FirstSettingStands
=============================================================================
