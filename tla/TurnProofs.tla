----------------------------- MODULE TurnProofs -----------------------------
(***************************************************************************)
(* Proofs about a turn of the run loop.  First what a key asks for, the    *)
(* tables of Keymap.  Then what App does with it and the drives with what  *)
(* App leaves them, Reducer, for any chats, messages and answers, and any  *)
(* values of the settings.  Then the files and pictures the drives start,  *)
(* Transfers, for every finite set of messages and users, any files,       *)
(* policies and capacity, and any number of failures and choices.          *)
(***************************************************************************)
EXTENDS Reducer, Transfers, FiniteSetTheorems, SequenceTheorems, WellFoundedInduction,
        NaturalsInduction, TLAPS

-----------------------------------------------------------------------------
(* The keymap.  The table of bindings is read part by part.                *)

\* A comma, by name: a symbol which is one for the provers too.
Comma == ","

\* A key pressed by itself, and with another held.
Bare(c) == [code |-> c, mods |-> {}]
Pressed(mod, c) == [code |-> c, mods |-> {mod}]

LEMMA BareFacts ==
  ASSUME NEW c \in Codes
  PROVE  /\ Bare(c) \in KeyPresses /\ \A S : Bare(c) \in Plain(S) <=> c \in S
         /\ \A d : Bare(c) \notin Ctrl(d) /\ Bare(c) \notin Alt(d) /\ Bare(c) \notin Shift(d)
<1>1. Bare(c) \in KeyPresses /\ Unmodified(Bare(c))
  BY DEF Bare, KeyPresses, Unmodified
<1> QED
  BY <1>1 DEF Bare, Plain, Ctrl, Alt, Shift

LEMMA PressedFacts ==
  ASSUME NEW c \in Codes
  PROVE  /\ Pressed("ctrl", c) \in KeyPresses /\ Pressed("alt", c) \in KeyPresses /\ Pressed("shift", c) \in KeyPresses
         /\ \A d : /\ Pressed("ctrl", c) \in Ctrl(d) <=> c = d
                   /\ Pressed("alt", c) \notin Ctrl(d) /\ Pressed("shift", c) \notin Ctrl(d)
                   /\ Pressed("alt", c) \in Alt(d) <=> c = d
                   /\ Pressed("shift", c) \notin Alt(d)
                   /\ Pressed("shift", c) \in Shift(d) <=> c = d
         /\ \A S : /\ Pressed("ctrl", c) \notin Plain(S) /\ Pressed("alt", c) \notin Plain(S)
                   /\ Pressed("shift", c) \in Plain(S) <=> c \in S
<1>1. /\ Pressed("ctrl", c) \in KeyPresses /\ Pressed("alt", c) \in KeyPresses /\ Pressed("shift", c) \in KeyPresses
      /\ Unmodified(Pressed("shift", c))
      /\ ~Unmodified(Pressed("ctrl", c)) /\ ~Unmodified(Pressed("alt", c))
  BY DEF Pressed, KeyPresses, Unmodified
<1> QED
  BY <1>1 DEF Pressed, Plain, Ctrl, Alt, Shift

LEMMA PrintableFacts ==
  ASSUME NEW k \in KeyPresses, Printable(k)
  PROVE  /\ k.code \in Chars /\ \A S : k \in Plain(S) => k.code \in S
         /\ \A d : k \notin Ctrl(d) /\ k \notin Alt(d) /\ (k \in Shift(d) => k.code = d)
BY DEF Printable, Unmodified, Plain, Ctrl, Alt, Shift

LEMMA NoChars ==
  /\ \A c \in {"Tab", "BackTab", "F1", "Enter", "Esc", "Backspace", "Left", "Right", "Home", "End", "Up", "Down"} :
       c \in Codes /\ c \notin Chars
  /\ "c" \in Codes /\ "g" \in Codes /\ "r" \in Codes /\ "q" \in Codes
<1>1. \A c \in {"Tab", "BackTab", "F1", "Enter", "Esc", "Backspace", "Left", "Right", "Home", "End", "Up", "Down"} :
        c \in Codes
  BY Zenon DEF Codes
<1>2. \A c \in {"Tab", "BackTab", "F1", "Enter", "Esc", "Backspace", "Left", "Right", "Home", "End", "Up", "Down"} :
        c \notin Chars
  BY Zenon DEF Chars
<1>3. "c" \in Codes /\ "g" \in Codes /\ "r" \in Codes /\ "q" \in Codes
  BY Zenon DEF Codes, Chars
<1> QED
  BY <1>1, <1>2, <1>3

GlobalCtrls == <<{"c"}, {}, {}, {}, {"g"}, {"r"}, {"q"}>>
GlobalCodes ==
  <<{}, {"Tab"}, {"BackTab"}, {"F1"}, {}, {}, {}>>
LEMMA GlobalTable ==
  /\ GlobalBindings = [i \in 1 .. 7 |-> GlobalBindings[i]]
  /\ \A i \in 1 .. 7 :
       /\ GlobalBindings[i].context = "Global" /\ GlobalBindings[i].action # "Cancel"
       /\ \A c \in Codes : Bare(c) \in GlobalBindings[i].keys <=> c \in GlobalCodes[i]
       /\ \A k \in KeyPresses : Printable(k) => k \notin GlobalBindings[i].keys
       /\ \A c \in Codes : Pressed("ctrl", c) \in GlobalBindings[i].keys <=> c \in GlobalCtrls[i]
       /\ Pressed("alt", "Enter") \notin GlobalBindings[i].keys /\ Pressed("shift", "Enter") \notin GlobalBindings[i].keys
  /\ GlobalBindings[1].action = "Quit"
<1> DEFINE pairs == <<
      <<Ctrl("c"), "Quit">>,
      <<Plain({"Tab"}), "FocusNext">>,
      <<Plain({"BackTab"}), "FocusPrev">>,
      <<Plain({"F1"}), "ToggleHelp">>,
      <<Ctrl("g"), "NoticeDismiss">>,
      <<Ctrl("r"), "Resync">>,
      <<Ctrl("q"), "LogoutOpen">> >>
<1>1. GlobalBindings = Group("Global", pairs)
  BY Zenon DEF GlobalBindings
<1>2. DOMAIN pairs = 1 .. 7
  OBVIOUS
<1>3. (\A i \in 1 .. 7 : pairs[i][2] # "Cancel") /\ pairs[1][2] = "Quit"
  OBVIOUS
<1>4. ASSUME NEW i \in 1 .. 7, NEW c \in Codes
      PROVE  Bare(c) \in pairs[i][1] <=> c \in GlobalCodes[i]
  BY BareFacts DEF GlobalCodes
<1>5. ASSUME NEW i \in 1 .. 7
      PROVE  /\ \A k \in KeyPresses : Printable(k) => k \notin pairs[i][1]
             /\ \A c \in Codes : Pressed("ctrl", c) \in pairs[i][1] <=> c \in GlobalCtrls[i]
             /\ Pressed("alt", "Enter") \notin pairs[i][1] /\ Pressed("shift", "Enter") \notin pairs[i][1]
  BY PressedFacts, PrintableFacts, NoChars DEF GlobalCtrls
<1> HIDE DEF pairs
<1>6. GlobalBindings = [i \in 1 .. 7 |-> [context |-> "Global", keys |-> pairs[i][1], action |-> pairs[i][2]]]
  BY <1>1, <1>2 DEF Group
<1> QED
  BY <1>3, <1>4, <1>5, <1>6

ChatListCodes ==
  <<{"j", "Down"}, {"k", "Up"}, {"]"}, {"["}, {"Enter"}, {"s"}, {"n"}>>
LEMMA ChatListTable ==
  /\ ChatListBindings = [i \in 1 .. 7 |-> ChatListBindings[i]]
  /\ \A i \in 1 .. 7 :
       /\ ChatListBindings[i].context = "ChatList" /\ ChatListBindings[i].action # "Cancel"
       /\ \A c \in Codes : Bare(c) \in ChatListBindings[i].keys <=> c \in ChatListCodes[i]
<1> DEFINE pairs == <<
      <<Plain({"j", "Down"}), "SelectNext">>,
      <<Plain({"k", "Up"}), "SelectPrev">>,
      <<Plain({"]"}), "NextList">>,
      <<Plain({"["}), "PrevList">>,
      <<Plain({"Enter"}), "OpenInHistory">>,
      <<Plain({"s"}), "SecretOpen">>,
      <<Plain({"n"}), "ContactSearchOpen">> >>
<1>1. ChatListBindings = Group("ChatList", pairs)
  BY Zenon DEF ChatListBindings
<1>2. DOMAIN pairs = 1 .. 7
  OBVIOUS
<1>3. (\A i \in 1 .. 7 : pairs[i][2] # "Cancel")
  OBVIOUS
<1>4. ASSUME NEW i \in 1 .. 7, NEW c \in Codes
      PROVE  Bare(c) \in pairs[i][1] <=> c \in ChatListCodes[i]
  BY BareFacts DEF ChatListCodes
<1> HIDE DEF pairs
<1>5. ChatListBindings = [i \in 1 .. 7 |-> [context |-> "ChatList", keys |-> pairs[i][1], action |-> pairs[i][2]]]
  BY <1>1, <1>2 DEF Group
<1> QED
  BY <1>3, <1>4, <1>5

HistoryCodes ==
  <<{"j", "Down"}, {"k", "Up"}, {"PageDown"}, {"PageUp"}, {"G", "End"}, {"i"}, {"r"},
  {"e"}, {"g"}, {"d"}, {"R"}, {"p"}, {"f"}, {"a"}, {"S"}, {"y"}>>
LEMMA HistoryTable ==
  /\ HistoryBindings = [i \in 1 .. 16 |-> HistoryBindings[i]]
  /\ \A i \in 1 .. 16 :
       /\ HistoryBindings[i].context = "History" /\ HistoryBindings[i].action # "Cancel"
       /\ \A c \in Codes : Bare(c) \in HistoryBindings[i].keys <=> c \in HistoryCodes[i]
<1> DEFINE pairs == <<
      <<Plain({"j", "Down"}), "ScrollDown">>,
      <<Plain({"k", "Up"}), "ScrollUp">>,
      <<Plain({"PageDown"}), "PageDown">>,
      <<Plain({"PageUp"}), "PageUp">>,
      <<Plain({"G", "End"}), "JumpToNewest">>,
      <<Plain({"i"}), "Write">>,
      <<Plain({"r"}), "ReplyMessage">>,
      <<Plain({"e"}), "EditMessage">>,
      <<Plain({"g"}), "JumpToQuoted">>,
      <<Plain({"d"}), "DeleteMessage">>,
      <<Plain({"R"}), "ReactionOpen">>,
      <<Plain({"p"}), "PinToggle">>,
      <<Plain({"f"}), "ForwardMessage">>,
      <<Plain({"a"}), "AttachOpen">>,
      <<Plain({"S"}), "SaveMedia">>,
      <<Plain({"y"}), "CopyMessage">> >>
<1>1. HistoryBindings = Group("History", pairs)
  BY Zenon DEF HistoryBindings
<1>2. DOMAIN pairs = 1 .. 16
  OBVIOUS
<1>3. (\A i \in 1 .. 16 : pairs[i][2] # "Cancel")
  OBVIOUS
<1>4. ASSUME NEW i \in 1 .. 16, NEW c \in Codes
      PROVE  Bare(c) \in pairs[i][1] <=> c \in HistoryCodes[i]
  BY BareFacts DEF HistoryCodes
<1> HIDE DEF pairs
<1>5. HistoryBindings = [i \in 1 .. 16 |-> [context |-> "History", keys |-> pairs[i][1], action |-> pairs[i][2]]]
  BY <1>1, <1>2 DEF Group
<1> QED
  BY <1>3, <1>4, <1>5

ComposerCodes ==
  <<{}, {}, {"Enter"}, {"Esc"}, {"Backspace"}, {"Left"}, {"Right"}, {"Home"}, {"End"},
  {"Up"}, {"Down"}>>
LEMMA ComposerTable ==
  /\ ComposerBindings = [i \in 1 .. 11 |-> ComposerBindings[i]]
  /\ \A i \in 1 .. 11 :
       /\ ComposerBindings[i].context = "Composer" /\ ComposerBindings[i].action # "Cancel"
       /\ \A c \in Codes : Bare(c) \in ComposerBindings[i].keys <=> c \in ComposerCodes[i]
       /\ \A k \in KeyPresses : Printable(k) => k \notin ComposerBindings[i].keys
       /\ Pressed("alt", "Enter") \in ComposerBindings[1].keys
       /\ Pressed("shift", "Enter") \notin ComposerBindings[1].keys /\ Pressed("shift", "Enter") \in ComposerBindings[2].keys
<1> DEFINE pairs == <<
      <<Alt("Enter"), "ComposerNewline">>,
      <<Shift("Enter"), "ComposerNewline">>,
      <<Plain({"Enter"}), "ComposerSubmit">>,
      <<Plain({"Esc"}), "ComposerCancel">>,
      <<Plain({"Backspace"}), "Backspace">>,
      <<Plain({"Left"}), "MoveCaret">>,
      <<Plain({"Right"}), "MoveCaret">>,
      <<Plain({"Home"}), "MoveCaret">>,
      <<Plain({"End"}), "MoveCaret">>,
      <<Plain({"Up"}), "MoveCaret">>,
      <<Plain({"Down"}), "MoveCaret">> >>
<1>1. ComposerBindings = Group("Composer", pairs)
  BY Zenon DEF ComposerBindings
<1>2. DOMAIN pairs = 1 .. 11
  OBVIOUS
<1>3. (\A i \in 1 .. 11 : pairs[i][2] # "Cancel")
  OBVIOUS
<1>4. ASSUME NEW i \in 1 .. 11, NEW c \in Codes
      PROVE  Bare(c) \in pairs[i][1] <=> c \in ComposerCodes[i]
  BY BareFacts DEF ComposerCodes
<1>5. /\ \A i \in 1 .. 11 : \A k \in KeyPresses : Printable(k) => k \notin pairs[i][1]
      /\ Pressed("alt", "Enter") \in pairs[1][1]
      /\ Pressed("shift", "Enter") \notin pairs[1][1] /\ Pressed("shift", "Enter") \in pairs[2][1]
  BY PressedFacts, PrintableFacts, NoChars
<1> HIDE DEF pairs
<1>6. ComposerBindings = [i \in 1 .. 11 |-> [context |-> "Composer", keys |-> pairs[i][1], action |-> pairs[i][2]]]
  BY <1>1, <1>2 DEF Group
<1> QED
  BY <1>3, <1>4, <1>5, <1>6

NavCodes ==
  <<{"/"}, {Comma}, {"b"}, {"q"}, {"?"}>>
LEMMA NavTable ==
  /\ NavBindings = [i \in 1 .. 5 |-> NavBindings[i]]
  /\ \A i \in 1 .. 5 :
       /\ NavBindings[i].context = "Nav" /\ NavBindings[i].action # "Cancel"
       /\ \A c \in Codes : Bare(c) \in NavBindings[i].keys <=> c \in NavCodes[i]
<1> DEFINE pairs == <<
      <<Plain({"/"}), "SearchOpen">>,
      <<Plain({Comma}), "SettingsOpen">>,
      <<Plain({"b"}), "ToggleChatListCollapse">>,
      <<Plain({"q"}), "Quit">>,
      <<Plain({"?"}), "ToggleHelp">> >>
<1>1. NavBindings = Group("Nav", pairs)
  BY Zenon DEF NavBindings, Comma
<1>2. DOMAIN pairs = 1 .. 5
  OBVIOUS
<1>3. (\A i \in 1 .. 5 : pairs[i][2] # "Cancel")
  OBVIOUS
<1>4. ASSUME NEW i \in 1 .. 5, NEW c \in Codes
      PROVE  Bare(c) \in pairs[i][1] <=> c \in NavCodes[i]
  BY BareFacts DEF NavCodes
<1> HIDE DEF pairs
<1>5. NavBindings = [i \in 1 .. 5 |-> [context |-> "Nav", keys |-> pairs[i][1], action |-> pairs[i][2]]]
  BY <1>1, <1>2 DEF Group
<1> QED
  BY <1>3, <1>4, <1>5

\* r is s and then t, of m and n elements of T.
Joins(T, m, n, s, t, r) ==
  /\ r \in [1 .. (m + n) -> T]
  /\ \A i \in 1 .. m : r[i] = s[i]
  /\ \A i \in 1 .. n : r[m + i] = t[i]

LEMMA Joined ==
  ASSUME NEW T, NEW m \in Nat, NEW n \in Nat, NEW s \in [1 .. m -> T], NEW t \in [1 .. n -> T]
  PROVE  Joins(T, m, n, s, t, s \o t)
<1>1. s \in Seq(T) /\ Len(s) = m /\ t \in Seq(T) /\ Len(t) = n
  OBVIOUS
<1> DEFINE r == s \o t
<1>2. /\ r \in Seq(T) /\ Len(r) = m + n
      /\ \A i \in 1 .. m + n : r[i] = IF i <= m THEN s[i] ELSE t[i - m]
  BY <1>1, ConcatProperties
<1> HIDE DEF r
<1>3. ASSUME NEW i \in 1 .. n
      PROVE  r[m + i] = t[i]
  <2>1. m + i \in 1 .. m + n /\ ~(m + i <= m) /\ (m + i) - m = i
    OBVIOUS
  <2> QED
    BY <1>2, <2>1
<1>4. ASSUME NEW i \in 1 .. m
      PROVE  r[i] = s[i]
  <2>1. i \in 1 .. m + n /\ i <= m
    OBVIOUS
  <2> QED
    BY <1>2, <2>1
<1>5. r \in [1 .. Len(r) -> T]
  BY <1>2, LenProperties
<1> QED
  BY <1>2, <1>3, <1>4, <1>5 DEF Joins, r

LEMMA Bound ==
  /\ DOMAIN BINDINGS = 1 .. 46
  /\ \A i \in 1 .. 7 : BINDINGS[i] = GlobalBindings[i]
  /\ \A i \in 1 .. 7 : BINDINGS[7 + i] = ChatListBindings[i]
  /\ \A i \in 1 .. 16 : BINDINGS[14 + i] = HistoryBindings[i]
  /\ \A i \in 1 .. 11 : BINDINGS[30 + i] = ComposerBindings[i]
  /\ \A i \in 1 .. 5 : BINDINGS[41 + i] = NavBindings[i]
<1> DEFINE T == UNION {{GlobalBindings[i] : i \in 1 .. 7}, {ChatListBindings[i] : i \in 1 .. 7},
                       {HistoryBindings[i] : i \in 1 .. 16}, {ComposerBindings[i] : i \in 1 .. 11},
                       {NavBindings[i] : i \in 1 .. 5}}
<1>1. GlobalBindings \in [1 .. 7 -> T]
  BY GlobalTable
<1>2. ChatListBindings \in [1 .. 7 -> T]
  BY ChatListTable
<1>3. HistoryBindings \in [1 .. 16 -> T]
  BY HistoryTable
<1>4. ComposerBindings \in [1 .. 11 -> T]
  BY ComposerTable
<1>5. NavBindings \in [1 .. 5 -> T]
  BY NavTable
<1> HIDE DEF T
<1> DEFINE A == GlobalBindings \o ChatListBindings
<1>6. A \in [1 .. 14 -> T] /\ Joins(T, 7, 7, GlobalBindings, ChatListBindings, A)
  <2>1. Joins(T, 7, 7, GlobalBindings, ChatListBindings, A)
    BY <1>1, <1>2, Joined
  <2> HIDE DEF A
  <2> QED
    BY <2>1 DEF Joins
<1> HIDE DEF A
<1> DEFINE B == A \o HistoryBindings
<1>7. B \in [1 .. 30 -> T] /\ Joins(T, 14, 16, A, HistoryBindings, B)
  <2>1. Joins(T, 14, 16, A, HistoryBindings, B)
    BY <1>3, <1>6, Joined
  <2> HIDE DEF B
  <2> QED
    BY <2>1 DEF Joins
<1> HIDE DEF B
<1> DEFINE C == B \o ComposerBindings
<1>8. C \in [1 .. 41 -> T] /\ Joins(T, 30, 11, B, ComposerBindings, C)
  <2>1. Joins(T, 30, 11, B, ComposerBindings, C)
    BY <1>4, <1>7, Joined
  <2> HIDE DEF C
  <2> QED
    BY <2>1 DEF Joins
<1> HIDE DEF C
<1> DEFINE D == C \o NavBindings
<1>9. D \in [1 .. 46 -> T] /\ Joins(T, 41, 5, C, NavBindings, D)
  <2>1. Joins(T, 41, 5, C, NavBindings, D)
    BY <1>5, <1>8, Joined
  <2> HIDE DEF D
  <2> QED
    BY <2>1 DEF Joins
<1>10. BINDINGS = D
  BY Zenon DEF BINDINGS, A, B, C
<1> HIDE DEF D
<1>11. DOMAIN BINDINGS = 1 .. 46 /\ \A i \in 1 .. 41 : BINDINGS[i] = C[i]
  BY <1>9, <1>10 DEF Joins
<1>12. \A i \in 1 .. 30 : BINDINGS[i] = B[i]
  <2>1. \A i \in 1 .. 30 : C[i] = B[i]
    BY <1>8 DEF Joins
  <2> QED
    BY <1>11, <2>1
<1>13. \A i \in 1 .. 14 : BINDINGS[i] = A[i]
  <2>1. \A i \in 1 .. 14 : B[i] = A[i]
    BY <1>7 DEF Joins
  <2> QED
    BY <1>12, <2>1
<1>14. \A i \in 1 .. 16 : BINDINGS[14 + i] = HistoryBindings[i]
  <2>1. \A i \in 1 .. 16 : B[14 + i] = HistoryBindings[i]
    BY <1>7 DEF Joins
  <2> QED
    BY <1>12, <2>1
<1>15. \A i \in 1 .. 11 : BINDINGS[30 + i] = ComposerBindings[i]
  <2>1. \A i \in 1 .. 11 : C[30 + i] = ComposerBindings[i]
    BY <1>8 DEF Joins
  <2> QED
    BY <1>11, <2>1
<1>16. \A i \in 1 .. 5 : BINDINGS[41 + i] = NavBindings[i]
  BY <1>9, <1>10 DEF Joins
<1>17. /\ \A i \in 1 .. 7 : BINDINGS[i] = GlobalBindings[i]
       /\ \A i \in 1 .. 7 : BINDINGS[7 + i] = ChatListBindings[i]
  <2>1. /\ \A i \in 1 .. 7 : A[i] = GlobalBindings[i]
        /\ \A i \in 1 .. 7 : A[7 + i] = ChatListBindings[i]
    BY <1>6 DEF Joins
  <2> QED
    BY <1>13, <2>1
<1> QED
  BY <1>11, <1>14, <1>15, <1>16, <1>17

\* What each row of the table is, by the part it is in.
LEMMA Parts ==
  ASSUME NEW i \in DOMAIN BINDINGS
  PROVE  \/ i \in 1 .. 7 /\ BINDINGS[i] = GlobalBindings[i] /\ BINDINGS[i].context = "Global"
         \/ i \in 8 .. 14 /\ BINDINGS[i] = ChatListBindings[i - 7] /\ BINDINGS[i].context = "ChatList"
         \/ i \in 15 .. 30 /\ BINDINGS[i] = HistoryBindings[i - 14] /\ BINDINGS[i].context = "History"
         \/ i \in 31 .. 41 /\ BINDINGS[i] = ComposerBindings[i - 30] /\ BINDINGS[i].context = "Composer"
         \/ i \in 42 .. 46 /\ BINDINGS[i] = NavBindings[i - 41] /\ BINDINGS[i].context = "Nav"
<1>1. i \in 1 .. 46
  BY Bound
<1>2. CASE i \in 1 .. 7
  BY <1>2, Bound, GlobalTable
<1>3. CASE i \in 8 .. 14
  <2>1. i - 7 \in 1 .. 7 /\ 7 + (i - 7) = i
    BY <1>3
  <2> QED
    BY <1>3, <2>1, Bound, ChatListTable
<1>4. CASE i \in 15 .. 30
  <2>1. i - 14 \in 1 .. 16 /\ 14 + (i - 14) = i
    BY <1>4
  <2> QED
    BY <1>4, <2>1, Bound, HistoryTable
<1>5. CASE i \in 31 .. 41
  <2>1. i - 30 \in 1 .. 11 /\ 30 + (i - 30) = i
    BY <1>5
  <2> QED
    BY <1>5, <2>1, Bound, ComposerTable
<1>6. CASE i \in 42 .. 46
  <2>1. i - 41 \in 1 .. 5 /\ 41 + (i - 41) = i
    BY <1>6
  <2> QED
    BY <1>6, <2>1, Bound, NavTable
<1> QED
  BY <1>1, <1>2, <1>3, <1>4, <1>5, <1>6

\* A nonempty set of naturals has a least element.
LEMMA LeastExists ==
  ASSUME NEW S \in SUBSET Nat, S # {}
  PROVE  \E m \in S : \A y \in S : m <= y
<1>1. PICK m \in S : \A y \in S : ~(<<y, m>> \in OpToRel(<, Nat))
  BY NatLessThanWellFounded, WFMin
<1>2. ASSUME NEW y \in S, y < m
      PROVE  FALSE
  <2>1. <<y, m>> \in OpToRel(<, Nat)
    BY <1>2, Zenon DEF OpToRel
  <2> QED
    BY <1>1, <2>1
<1> QED
  BY <1>2

LEMMA FociSet == ToSet(Foci) = {"ChatList", "History", "Composer"}
BY DEF ToSet, Foci

\* A row no earlier one is taken for.
LEMMA FirstRow ==
  ASSUME NEW i \in DOMAIN BINDINGS, NEW f \in ToSet(Foci), NEW k \in BINDINGS[i].keys,
         Applies(BINDINGS[i].context, f),
         \A j \in 1 .. (i - 1) : j \in DOMAIN BINDINGS => ~(Applies(BINDINGS[j].context, f) /\ k \in BINDINGS[j].keys)
  PROVE  Applies(BINDINGS[i].context, f) /\ First(Candidates(f, k)) = i
<1>1. Candidates(f, k) \subseteq 1 .. 46 /\ i \in Candidates(f, k) /\ i \in 1 .. 46
  BY Bound DEF Candidates
<1>2. \A j \in Candidates(f, k) : i <= j
  BY <1>1 DEF Candidates
<1>3. \A x : (x \in Candidates(f, k) /\ \A j \in Candidates(f, k) : x <= j) <=> x = i
  BY <1>1, <1>2
<1> QED
  BY <1>3 DEF First

Reached(i) ==
  \E f \in ToSet(Foci), k \in BINDINGS[i].keys : Applies(BINDINGS[i].context, f) /\ First(Candidates(f, k)) = i


\* A key of a row of the panes, alone, is in no row before it: in none of those that hold
\* everywhere, nor of those of the pane.
LEMMA BareReached ==
  ASSUME NEW i \in 8 .. 46, NEW f \in ToSet(Foci), Applies(BINDINGS[i].context, f),
         NEW c \in Codes, Bare(c) \in BINDINGS[i].keys,
         \A j \in 1 .. 7 : c \notin GlobalCodes[j],
         \A j \in 8 .. (i - 1) : Applies(BINDINGS[j].context, f) => Bare(c) \notin BINDINGS[j].keys
  PROVE  Reached(i)
<1>1. i \in DOMAIN BINDINGS /\ i \in 1 .. 46
  BY Bound
<1>2. \A j \in 1 .. 7 : Bare(c) \notin BINDINGS[j].keys
  BY Bound, GlobalTable
<1>3. ASSUME NEW j \in 1 .. (i - 1)
      PROVE  ~(Applies(BINDINGS[j].context, f) /\ Bare(c) \in BINDINGS[j].keys)
  <2>1. j \in 1 .. 7 \/ j \in 8 .. (i - 1)
    BY <1>1
  <2> QED
    BY <1>2, <2>1
<1> QED
  BY <1>1, <1>3, FirstRow DEF Reached

LEMMA GlobalReached ==
  ASSUME NEW i \in 1 .. 7
  PROVE  Reached(i)
<1> DEFINE w == <<"c", "Tab", "BackTab", "F1", "g", "r", "q">>
           k == IF i \in 2 .. 4 THEN Bare(w[i]) ELSE Pressed("ctrl", w[i])
<1>1. w[i] \in Codes
  BY NoChars
<1>2. k \in GlobalBindings[i].keys
  BY <1>1, GlobalTable DEF GlobalCodes, GlobalCtrls
<1>3. ASSUME NEW j \in 1 .. (i - 1)
      PROVE  k \notin GlobalBindings[j].keys
  BY <1>1, GlobalTable DEF GlobalCodes, GlobalCtrls
<1> HIDE DEF k
<1>4. i \in DOMAIN BINDINGS /\ k \in BINDINGS[i].keys /\ Applies(BINDINGS[i].context, "ChatList")
  BY <1>2, Bound, GlobalTable DEF Applies
<1>5. \A j \in 1 .. (i - 1) : k \notin BINDINGS[j].keys
  BY <1>3, Bound
<1> QED
  BY <1>4, <1>5, FirstRow, FociSet DEF Reached

LEMMA PaneCodes ==
  /\ \A c \in {"j", "k", "]", "[", "Enter", "s", "n", "PageDown", "PageUp", "G", "i", "r", "e", "g", "d", "R",
               "p", "f", "a", "S", "y", "Esc", "Backspace", "Left", "Right", "Home", "End", "Up", "Down",
               "/", "b", "q", "?"} : c \in Codes
  /\ Comma \in Codes
<1>1. \A c \in {"j", "k", "]", "[", "Enter", "s", "n", "PageDown", "PageUp", "G", "i", "r", "e", "g", "d", "R",
               "p", "f", "a", "S", "y", "Esc", "Backspace", "Left", "Right", "Home", "End", "Up", "Down",
               "/", "b", "q", "?"} : c \in Codes
  BY Zenon DEF Codes, Chars
<1>2. Comma \in Codes
  BY Zenon DEF Codes, Chars, Comma
<1> QED
  BY <1>1, <1>2

\* The comma is none of the other keys bound.
LEMMA CommaFacts ==
  /\ Comma # "Tab" /\ Comma # "BackTab" /\ Comma # "F1"
  /\ Comma # "j" /\ Comma # "k" /\ Comma # "]" /\ Comma # "[" /\ Comma # "Enter" /\ Comma # "s" /\ Comma # "n"
  /\ Comma # "Up" /\ Comma # "Down" /\ Comma # "/" /\ Comma # "b" /\ Comma # "q" /\ Comma # "?"
  BY Zenon DEF Comma

LEMMA ChatListReached ==
  ASSUME NEW i \in 8 .. 14
  PROVE  Reached(i)
<1> DEFINE w == <<"j", "k", "]", "[", "Enter", "s", "n">>
<1>1. PICK n \in 1 .. 7 : n = i - 7
  OBVIOUS
<1>2. w[n] \in Codes
  BY PaneCodes
<1>3. Bare(w[n]) \in ChatListBindings[n].keys
  BY <1>2, ChatListTable DEF ChatListCodes
<1>4. \A j \in 1 .. (n - 1) : Bare(w[n]) \notin ChatListBindings[j].keys
  BY <1>2, ChatListTable DEF ChatListCodes
<1>5. \A j \in 1 .. 7 : w[n] \notin GlobalCodes[j]
  BY DEF GlobalCodes
<1> HIDE DEF w
<1>7. \A j \in 8 .. (i - 1) : Applies(BINDINGS[j].context, "ChatList") => Bare(w[n]) \notin BINDINGS[j].keys
  <2> TAKE j \in 8 .. (i - 1)
  <2>1. j - 7 \in 1 .. (n - 1) /\ j - 7 \in 1 .. 7 /\ j = 7 + (j - 7)
    BY <1>1
  <2> QED
    BY <1>4, <2>1, Bound
<1>8. i \in 8 .. 46 /\ BINDINGS[i] = ChatListBindings[n]
  <2>1. i = 7 + n
    BY <1>1
  <2> QED
    BY <2>1, Bound
<1>9. Applies(BINDINGS[i].context, "ChatList")
  BY <1>8, ChatListTable DEF Applies
<1> QED
  BY <1>2, <1>3, <1>5, <1>7, <1>8, <1>9, BareReached, FociSet

LEMMA HistoryReached ==
  ASSUME NEW i \in 15 .. 30
  PROVE  Reached(i)
<1> DEFINE w == <<"j", "k", "PageDown", "PageUp", "G", "i", "r", "e", "g", "d", "R", "p", "f", "a", "S", "y">>
<1>1. PICK n \in 1 .. 16 : n = i - 14
  OBVIOUS
<1>2. w[n] \in Codes
  BY PaneCodes
<1>3. Bare(w[n]) \in HistoryBindings[n].keys
  BY <1>2, HistoryTable DEF HistoryCodes
<1>4. \A j \in 1 .. (n - 1) : Bare(w[n]) \notin HistoryBindings[j].keys
  BY <1>2, HistoryTable DEF HistoryCodes
<1>5. \A j \in 1 .. 7 : w[n] \notin GlobalCodes[j]
  BY DEF GlobalCodes
<1> HIDE DEF w
<1>7. \A j \in 8 .. (i - 1) : Applies(BINDINGS[j].context, "History") => Bare(w[n]) \notin BINDINGS[j].keys
  <2> SUFFICES ASSUME NEW j \in 8 .. (i - 1), Applies(BINDINGS[j].context, "History")
               PROVE  Bare(w[n]) \notin BINDINGS[j].keys
    OBVIOUS
  <2>1. j \in DOMAIN BINDINGS
    BY Bound
  <2>2. j \in 15 .. (i - 1)
    BY <2>1, Parts DEF Applies
  <2>3. CASE j \in 15 .. (i - 1)
    <3>1. j - 14 \in 1 .. (n - 1) /\ j - 14 \in 1 .. 16 /\ j = 14 + (j - 14)
      BY <1>1, <2>3
    <3> QED
      BY <1>4, <3>1, Bound
  <2> QED
    BY <2>2, <2>3
<1>8. i \in 8 .. 46 /\ BINDINGS[i] = HistoryBindings[n]
  <2>1. i = 14 + n
    BY <1>1
  <2> QED
    BY <2>1, Bound
<1>9. Applies(BINDINGS[i].context, "History")
  BY <1>8, HistoryTable DEF Applies
<1> QED
  BY <1>2, <1>3, <1>5, <1>7, <1>8, <1>9, BareReached, FociSet

LEMMA ComposerReached ==
  ASSUME NEW i \in 31 .. 41
  PROVE  Reached(i)
<1> DEFINE w == <<"Enter", "Enter", "Enter", "Esc", "Backspace", "Left", "Right", "Home", "End", "Up", "Down">>
           k == IF i = 31 THEN Pressed("alt", "Enter") ELSE IF i = 32 THEN Pressed("shift", "Enter") ELSE Bare(w[i - 30])
<1>1. PICK n \in 1 .. 11 : n = i - 30 /\ i = 30 + n
  OBVIOUS
<1>2. w[n] \in Codes
  BY PaneCodes
<1>3. k \in ComposerBindings[n].keys
  BY <1>1, <1>2, ComposerTable DEF ComposerCodes
<1>4. \A j \in 1 .. (n - 1) : k \notin ComposerBindings[j].keys
  BY <1>1, <1>2, ComposerTable DEF ComposerCodes
<1>5. \A j \in 1 .. 7 : k \notin GlobalBindings[j].keys
  BY <1>1, <1>2, GlobalTable DEF GlobalCodes
<1> HIDE DEF k
<1>6. ASSUME NEW j \in 1 .. (i - 1), j \in DOMAIN BINDINGS, Applies(BINDINGS[j].context, "Composer")
      PROVE  k \notin BINDINGS[j].keys
  <2>1. j \in 1 .. 7 \/ j \in 31 .. (i - 1)
    BY <1>6, Parts DEF Applies
  <2>2. CASE j \in 1 .. 7
    BY <1>5, <2>2, Bound
  <2>3. CASE j \in 31 .. (i - 1)
    <3>1. j - 30 \in 1 .. (n - 1) /\ j - 30 \in 1 .. 11 /\ j = 30 + (j - 30)
      BY <1>1, <2>3
    <3> QED
      BY <1>4, <3>1, Bound
  <2> QED
    BY <2>1, <2>2, <2>3
<1>7. i \in DOMAIN BINDINGS /\ BINDINGS[i] = ComposerBindings[n]
  BY <1>1, Bound
<1>8. Applies(BINDINGS[i].context, "Composer")
  BY <1>7, ComposerTable DEF Applies
<1> QED
  BY <1>3, <1>6, <1>7, <1>8, FirstRow, FociSet DEF Reached

LEMMA NavReached ==
  ASSUME NEW i \in 42 .. 46
  PROVE  Reached(i)
<1> DEFINE w == <<"/", Comma, "b", "q", "?">>
<1>1. PICK n \in 1 .. 5 : n = i - 41
  OBVIOUS
<1>2. w[n] \in Codes
  BY PaneCodes
<1>3. Bare(w[n]) \in NavBindings[n].keys
  BY <1>2, NavTable, CommaFacts DEF NavCodes
<1>4. \A j \in 1 .. (n - 1) : Bare(w[n]) \notin NavBindings[j].keys
  BY <1>2, NavTable, CommaFacts DEF NavCodes
<1>5. \A j \in 1 .. 7 : w[n] \notin GlobalCodes[j]
  BY CommaFacts DEF GlobalCodes
<1>6. \A j \in 1 .. 7 : Bare(w[n]) \notin ChatListBindings[j].keys
  BY <1>2, ChatListTable, CommaFacts DEF ChatListCodes
<1> HIDE DEF w
<1>7. \A j \in 8 .. (i - 1) : Applies(BINDINGS[j].context, "ChatList") => Bare(w[n]) \notin BINDINGS[j].keys
  <2> SUFFICES ASSUME NEW j \in 8 .. (i - 1), Applies(BINDINGS[j].context, "ChatList")
               PROVE  Bare(w[n]) \notin BINDINGS[j].keys
    OBVIOUS
  <2>1. j \in DOMAIN BINDINGS
    BY Bound
  <2>2. j \in 42 .. (i - 1) \/ (j \in 8 .. 14 /\ BINDINGS[j] = ChatListBindings[j - 7])
    BY <2>1, Parts DEF Applies
  <2>3. CASE j \in 42 .. (i - 1)
    <3>1. j - 41 \in 1 .. (n - 1) /\ j - 41 \in 1 .. 5 /\ j = 41 + (j - 41)
      BY <1>1, <2>3
    <3> QED
      BY <1>4, <3>1, Bound
  <2>4. CASE j \in 8 .. 14 /\ BINDINGS[j] = ChatListBindings[j - 7]
    <3>1. j - 7 \in 1 .. 7
      BY <2>4
    <3> QED
      BY <1>6, <2>4, <3>1
  <2> QED
    BY <2>2, <2>3, <2>4
<1>8. i \in 8 .. 46 /\ BINDINGS[i] = NavBindings[n]
  <2>1. i = 41 + n
    BY <1>1
  <2> QED
    BY <2>1, Bound
<1>9. Applies(BINDINGS[i].context, "ChatList")
  BY <1>8, NavTable DEF Applies
<1> QED
  BY <1>2, <1>3, <1>5, <1>7, <1>8, <1>9, BareReached, FociSet

-----------------------------------------------------------------------------
(* What a key asks for.                                                    *)

LEMMA EachReached == \A i \in DOMAIN BINDINGS : Reached(i)
<1> TAKE i \in DOMAIN BINDINGS
<1>1. i \in 1 .. 7 \/ i \in 8 .. 14 \/ i \in 15 .. 30 \/ i \in 31 .. 41 \/ i \in 42 .. 46
  BY Bound
<1> QED
  BY <1>1, GlobalReached, ChatListReached, HistoryReached, ComposerReached, NavReached

\* Ctrl-C.
LEMMA CtrlCQuits ==
  ASSUME NEW o \in Overlays, NEW f \in ToSet(Foci)
  PROVE  ActionOf[o][f][Pressed("ctrl", "c")] = "Quit"
<1> DEFINE k == Pressed("ctrl", "c")
<1>1. k \in KeyPresses /\ k \in Ctrl("c") /\ k \notin Ctrl("g")
  BY PressedFacts, NoChars
<1>2. ActionOf[o][f][k] = Resolve(o, f, k)
  BY <1>1 DEF ActionOf
<1>3. CASE o # "None"
  BY <1>1, <1>2, <1>3 DEF Resolve, ResolveOverlay
<1>4. CASE o = "None"
  <2>1. 1 \in DOMAIN BINDINGS /\ BINDINGS[1] = GlobalBindings[1]
    BY Bound
  <2>2. k \in BINDINGS[1].keys /\ BINDINGS[1].action = "Quit" /\ Applies(BINDINGS[1].context, f)
    BY <2>1, GlobalTable, NoChars DEF GlobalCtrls, Applies
  <2>3. First(Candidates(f, k)) = 1
    BY <2>1, <2>2, FirstRow
  <2>4. Candidates(f, k) # {}
    BY <2>1, <2>2 DEF Candidates
  <2> QED
    BY <1>1, <1>2, <1>4, <2>2, <2>3, <2>4 DEF Resolve, ResolvePanes
<1> QED
  BY <1>3, <1>4

\* A character in the composer.
LEMMA CharactersTyped ==
  ASSUME NEW k \in KeyPresses, Printable(k)
  PROVE  ActionOf["None"]["Composer"][k] = "Input"
<1>1. Candidates("Composer", k) = {}
  <2> SUFFICES ASSUME NEW i \in DOMAIN BINDINGS, Applies(BINDINGS[i].context, "Composer"), k \in BINDINGS[i].keys
               PROVE  FALSE
    BY DEF Candidates
  <2>1. \/ i \in 1 .. 7 /\ BINDINGS[i] = GlobalBindings[i]
        \/ i \in 31 .. 41 /\ BINDINGS[i] = ComposerBindings[i - 30]
    BY Parts DEF Applies
  <2>2. i \in 31 .. 41 => i - 30 \in 1 .. 11
    BY Bound
  <2> QED
    BY <2>1, <2>2, GlobalTable, ComposerTable
<1>2. k \notin Ctrl("g")
  BY PrintableFacts
<1>3. "None" \in Overlays /\ "Composer" \in ToSet(Foci)
  BY FociSet DEF Overlays
<1> QED
  BY <1>1, <1>2, <1>3 DEF ActionOf, Resolve, ResolvePanes

LEMMA KeymapSound == KeymapIsSound
<1>1. [code |-> "c", mods |-> {"ctrl"}] = Pressed("ctrl", "c")
  BY DEF Pressed
<1> QED
  BY <1>1, EachReached, CtrlCQuits, CharactersTyped DEF KeymapIsSound, Reached

\* With no overlay nothing is cancelled.
LEMMA PanesCancelNothing ==
  ASSUME NEW f \in ToSet(Foci), NEW k \in KeyPresses
  PROVE  ActionOf["None"][f][k] # "Cancel"
<1>1. ActionOf["None"][f][k] = Resolve("None", f, k)
  BY DEF ActionOf, Overlays
<1>2. \A i \in DOMAIN BINDINGS : BINDINGS[i].action # "Cancel"
  <2> TAKE i \in DOMAIN BINDINGS
  <2>1. /\ i \in 8 .. 14 => i - 7 \in 1 .. 7
        /\ i \in 15 .. 30 => i - 14 \in 1 .. 16
        /\ i \in 31 .. 41 => i - 30 \in 1 .. 11
        /\ i \in 42 .. 46 => i - 41 \in 1 .. 5
    BY Bound
  <2>2. CASE i \in 1 .. 14
    BY <2>1, <2>2, Parts, GlobalTable, ChatListTable
  <2>3. CASE i \in 15 .. 30
    BY <2>1, <2>3, Parts, HistoryTable
  <2>4. CASE i \in 31 .. 41
    BY <2>1, <2>4, Parts, ComposerTable
  <2>5. CASE i \in 42 .. 46
    BY <2>1, <2>5, Parts, NavTable
  <2> QED
    BY <2>2, <2>3, <2>4, <2>5, Bound
<1>3. ASSUME Candidates(f, k) # {}
      PROVE  First(Candidates(f, k)) \in DOMAIN BINDINGS
  <2>1. Candidates(f, k) \in SUBSET Nat /\ Candidates(f, k) \subseteq DOMAIN BINDINGS
    BY Bound DEF Candidates
  <2> QED
    BY <1>3, <2>1, LeastExists DEF First
<1> QED
  BY <1>1, <1>2, <1>3 DEF Resolve, ResolvePanes

\* What is asked for with an overlay open is the overlay's, but for Ctrl-C and Ctrl-G.
OverlayActs == {"NoticeDismiss", "Quit", "Noop", "Input", "j", "k", "c", "Cancel", "Confirm", "ToggleHelp",
                "Next", "Prev", "NextField", "PrevField", "Backspace", "MoveCaret", "ForwardOpen"}

LEMMA OverlaysTakeKeys ==
  ASSUME NEW o \in Overlays, o # "None", NEW f \in ToSet(Foci), NEW k \in KeyPresses
  PROVE  ActionOf[o][f][k] \in OverlayActs
<1>1. ActionOf[o][f][k] = Resolve(o, f, k)
  BY DEF ActionOf
<1>2. \A p \in Prompt \cup Lines \cup Rows : p[2] \in OverlayActs
  BY DEF Prompt, Lines, Rows, OverlayActs
<1>3. \A p \in OverlayKeys[o] : p[2] \in OverlayActs
  <2>1. \A p \in {"?", "q", "Esc"} \X {"ToggleHelp"} : p[2] \in OverlayActs
    BY DEF OverlayActs
  <2>2. \A p \in {<<"f", "ForwardOpen">>, <<"Backspace", "Backspace">>, <<"Down", "Next">>, <<"Up", "Prev">>,
                  <<"Tab", "NextField">>, <<"BackTab", "PrevField">>} : p[2] \in OverlayActs
    BY DEF OverlayActs
  <2>3. \A p \in OverlayKeys[o] : p \in Prompt \cup Lines \cup Rows \cup ({"?", "q", "Esc"} \X {"ToggleHelp"})
             \cup {<<"f", "ForwardOpen">>, <<"Backspace", "Backspace">>, <<"Down", "Next">>, <<"Up", "Prev">>,
                  <<"Tab", "NextField">>, <<"BackTab", "PrevField">>}
    BY DEF OverlayKeys, Overlays
  <2> QED
    BY <1>2, <2>1, <2>2, <2>3
<1>4. ResolveOverlay(o, k) \in OverlayActs
  <2> DEFINE acts == {p \in OverlayKeys[o] : p[1] = k.code}
  <2>1. acts # {} => (CHOOSE p \in acts : TRUE)[2] \in OverlayActs
    BY <1>3
  <2>2. {"Quit", "Noop", "Input", "j", "k", "c"} \subseteq OverlayActs
    BY DEF OverlayActs
  <2> QED
    BY <2>1, <2>2 DEF ResolveOverlay
<1> QED
  BY <1>1, <1>4 DEF Resolve, OverlayActs


-----------------------------------------------------------------------------
(* Settings as they are typed and displayed.                               *)

\* The values a field may have.
Valid(f) == IF f = "graphics" THEN BOOLEAN ELSE {Unlimited} \cup 1 .. MaxCount

\* A line says one thing at most, and something the field may be.
LEMMA ParsedOnce ==
  ASSUME NEW f \in AllFields, NEW s, NEW v \in ParseField(f, s)
  PROVE  v \in Valid(f) /\ ParseField(f, s) = {v}
<1>1. CASE f \in KeepFields
  <2>1. ParseField(f, s) = ParseKeep(s) /\ f # "graphics"
    BY <1>1 DEF ParseField, KeepFields
  <2>2. CASE s.word = "forever"
    BY <2>1, <2>2 DEF ParseKeep, Valid
  <2>3. CASE s.word # "forever"
    BY <2>1, <2>3 DEF ParseKeep, Counted, Valid
  <2> QED
    BY <2>2, <2>3
<1>2. CASE f = "cache"
  <2>1. ParseField(f, s) = ParseCap(s) /\ f # "graphics"
    BY <1>2 DEF ParseField, KeepFields
  <2>2. CASE s.word = "unbounded"
    BY <2>1, <2>2 DEF ParseCap, Valid
  <2>3. CASE s.word # "unbounded"
    BY <2>1, <2>3 DEF ParseCap, Counted, Valid
  <2> QED
    BY <2>2, <2>3
<1>3. CASE f = "graphics"
  <2>1. ParseField(f, s) = ParseGraphics(s)
    BY <1>3 DEF ParseField, KeepFields
  <2>2. v \in BOOLEAN /\ s.word \in IF v THEN {"on", "true", "yes"} ELSE {"off", "false", "no"}
    BY <2>1 DEF ParseGraphics
  <2>3. v = TRUE \/ v = FALSE
    BY <2>2
  <2>4. CASE v = TRUE
    <3>1. s.word \in {"on", "true", "yes"}
      BY <2>2, <2>4
    <3>2. s.word \notin {"off", "false", "no"}
      BY <3>1
    <3>3. ParseGraphics(s) = {TRUE}
      BY <3>1, <3>2 DEF ParseGraphics
    <3> QED
      BY <1>3, <2>1, <2>4, <3>3 DEF Valid
  <2>5. CASE v = FALSE
    <3>1. s.word \in {"off", "false", "no"}
      BY <2>2, <2>5
    <3>2. s.word \notin {"on", "true", "yes"}
      BY <3>1
    <3>3. ParseGraphics(s) = {FALSE}
      BY <3>1, <3>2 DEF ParseGraphics
    <3> QED
      BY <1>3, <2>1, <2>5, <3>3 DEF Valid
  <2> QED
    BY <2>3, <2>4, <2>5
<1> QED
  BY <1>1, <1>2, <1>3 DEF AllFields, StorageFields

\* The units of a cap, from the smallest.
LEMMA UnitFacts ==
  /\ BytesPer["b"] = 1 /\ BytesPer["kb"] = Kilo
  /\ BytesPer["mb"] = Kilo * Kilo /\ BytesPer["gb"] = Kilo * Kilo * Kilo
  /\ \A u \in {"gb", "mb", "kb", "b"} : BytesPer[u] \in Nat \ {0} /\ u \in DOMAIN BytesPer
  /\ 1 < Kilo /\ Kilo < Kilo * Kilo /\ Kilo * Kilo < Kilo * Kilo * Kilo
<1>1. Kilo \in Nat /\ 1 < Kilo
  BY FormsAssumption
<1>2. \A a \in Nat : 1 <= a => a * Kilo \in Nat /\ a < a * Kilo
  BY <1>1
<1>3. /\ Kilo * Kilo \in Nat /\ Kilo < Kilo * Kilo
      /\ Kilo * Kilo * Kilo \in Nat /\ Kilo * Kilo < Kilo * Kilo * Kilo
  BY <1>1, <1>2
<1>4. /\ BytesPer["b"] = 1 /\ BytesPer["kb"] = Kilo
      /\ BytesPer["mb"] = Kilo * Kilo /\ BytesPer["gb"] = Kilo * Kilo * Kilo
      /\ \A u \in {"gb", "mb", "kb", "b"} : u \in DOMAIN BytesPer
  BY DEF BytesPer
<1> QED
  BY <1>1, <1>3, <1>4

\* What divides evenly, times the quotient.
LEMMA Evenly ==
  ASSUME NEW n \in Nat \ {0}, NEW p \in Nat \ {0}, n % p = 0
  PROVE  n \div p \in 1 .. n /\ (n \div p) * p = n
<1>1. n \div p \in Nat /\ n = p * (n \div p) + (n % p)
  OBVIOUS
<1>2. p * (n \div p) = n
  BY <1>1
<1>3. n \div p # 0
  BY <1>1, <1>2
<1>4. n \div p <= n
  BY <1>1, <1>2
<1> QED
  BY <1>1, <1>2, <1>3, <1>4

LEMMA CapParses ==
  ASSUME NEW v \in {Unlimited} \cup 1 .. MaxCount
  PROVE  ParseCap(DisplayCap(v)) = {v}
<1>1. CASE v = Unlimited
  BY <1>1 DEF DisplayCap, ParseCap, Word
<1>2. CASE v # Unlimited
  <2> DEFINE all == {"gb", "mb", "kb", "b"}
             units == {u \in all : v % BytesPer[u] = 0}
             Largest(x) == x \in units /\ \A y \in units : BytesPer[y] <= BytesPer[x]
             u == CHOOSE x \in units : \A y \in units : BytesPer[y] <= BytesPer[x]
             n == v \div BytesPer[u]
  <2>1. v \in 1 .. MaxCount /\ v \in Nat \ {0} /\ MaxCount \in Nat
    BY <1>2, FormsAssumption
  <2>2. DisplayCap(v) = Count(n, u)
    BY <1>2 DEF DisplayCap, InUnits
  <2>3. "b" \in units
    BY <2>1, UnitFacts
  <2>4. \E x : Largest(x)
    <3>1. CASE "gb" \in units
      BY <3>1, UnitFacts
    <3>2. CASE "gb" \notin units /\ "mb" \in units
      BY <3>2, UnitFacts
    <3>3. CASE "gb" \notin units /\ "mb" \notin units /\ "kb" \in units
      BY <3>3, UnitFacts
    <3>4. CASE "gb" \notin units /\ "mb" \notin units /\ "kb" \notin units
      BY <3>4, <2>3, UnitFacts
    <3> QED
      BY <3>1, <3>2, <3>3, <3>4
  <2>5. Largest(u)
    BY <2>4
  <2> HIDE DEF u
  <2>6. u \in all /\ v % BytesPer[u] = 0 /\ BytesPer[u] \in Nat \ {0} /\ u \in DOMAIN BytesPer
    BY <2>5, UnitFacts
  <2>7. n \in 1 .. v /\ n * BytesPer[u] = v
    BY <2>1, <2>6, Evenly
  <2> HIDE DEF n
  <2>8. ParseCap(Count(n, u)) = Counted(Count(n, u), BytesPer)
    BY DEF ParseCap, Count
  <2>9. {u} \cap DOMAIN BytesPer = {u}
    BY <2>6
  <2>10. Counted(Count(n, u), BytesPer) = {m \in {n * BytesPer[u]} : n <= MaxCount /\ m \in 1 .. MaxCount}
    BY <2>9 DEF Counted, Count
  <2>11. n <= MaxCount
    BY <2>1, <2>7
  <2> QED
    BY <2>1, <2>2, <2>7, <2>8, <2>10, <2>11
<1> QED
  BY <1>1, <1>2

LEMMA KeepParses ==
  ASSUME NEW v \in {Unlimited} \cup 1 .. MaxCount
  PROVE  ParseKeep(DisplayKeep(v)) = {v}
<1>1. CASE v = Unlimited
  BY <1>1 DEF DisplayKeep, ParseKeep, Word
<1>2. CASE v # Unlimited
  <2>1. v \in 1 .. MaxCount /\ v \in Nat /\ MaxCount \in Nat
    BY <1>2, FormsAssumption
  <2>2. ParseKeep(DisplayKeep(v)) = Counted(Count(v, "d"), DaysPer)
    BY <1>2 DEF DisplayKeep, ParseKeep, Count
  <2>3. "d" \in DOMAIN DaysPer /\ DaysPer["d"] = 1
    BY DEF DaysPer
  <2>4. {"d"} \cap DOMAIN DaysPer = {"d"}
    BY <2>3
  <2>5. Counted(Count(v, "d"), DaysPer) = {m \in {v * 1} : v <= MaxCount /\ m \in 1 .. MaxCount}
    BY <2>3, <2>4 DEF Counted, Count
  <2> QED
    BY <2>1, <2>2, <2>5
<1> QED
  BY <1>1, <1>2

\* Every value of a setting, displayed, reads as itself.
LEMMA DisplayParses ==
  ASSUME NEW f \in AllFields, NEW v \in Valid(f)
  PROVE  ParseField(f, DisplayField(f, v)) = {v}
<1>1. CASE f \in KeepFields
  BY <1>1, KeepParses DEF ParseField, DisplayField, KeepFields, Valid
<1>2. CASE f = "cache"
  BY <1>2, CapParses DEF ParseField, DisplayField, KeepFields, Valid
<1>3. CASE f = "graphics"
  <2>1. ParseField(f, DisplayField(f, v)) = ParseGraphics(Word(IF v THEN "on" ELSE "off"))
    BY <1>3 DEF ParseField, DisplayField, KeepFields
  <2>2. v = TRUE \/ v = FALSE
    BY <1>3 DEF Valid
  <2>3. ParseGraphics(Word("on")) = {TRUE} /\ ParseGraphics(Word("off")) = {FALSE}
    BY DEF ParseGraphics, Word
  <2> QED
    BY <2>1, <2>2, <2>3
<1> QED
  BY <1>1, <1>2, <1>3 DEF AllFields, StorageFields

LEMMA DisplaysDo == DisplaysParse
  BY DisplayParses DEF DisplaysParse, Valid

-----------------------------------------------------------------------------
(* What the loop keeps.                                                    *)

\* A row of a list of n, or the first of an empty one.
InList(row, n) == row \in Nat /\ 1 <= row /\ (row <= n \/ row = 1)

IsResults(f) ==
  /\ f = [hits |-> f.hits, row |-> f.row]
  /\ Len(f.hits) \in Nat /\ InList(f.row, Len(f.hits))

\* What an overlay edits: the rows selected are rows, a deletion for everyone is of a message
\* of ours, and a refused line does not parse.
FormOf(o, f) ==
  /\ o \in {"SearchResults", "ContactSearchResults"} => IsResults(f)
  /\ o = "Forward" =>
       /\ f = [of |-> f.of, row |-> f.row, back |-> f.back] /\ InList(f.row, Len(ChatRows))
       /\ f.back # NoForm => IsResults(f.back)
  /\ o = "Reaction" => f = [row |-> f.row, custom |-> f.custom] /\ InList(f.row, PaletteLen)
  /\ o = "DeleteConfirm" =>
       f = [of |-> f.of, revoke |-> f.revoke] /\ f.revoke \in BOOLEAN /\ (f.revoke => f.of \in Own)
  /\ o = "Settings" =>
       /\ f = [says |-> f.says, at |-> f.at, error |-> f.error]
       /\ f.at \in DOMAIN Fields /\ f.error \in BOOLEAN
       /\ f.error => ParseField(Fields[f.at], f.says[Fields[f.at]]) = {}

PanesInv == pane \in Panes /\ InList(cursor, Len(ChatRows))
ComposerInv ==
  /\ composer = [text |-> composer.text, mode |-> composer.mode, to |-> composer.to]
  /\ composer.mode \in {"send", "reply", "edit"}
FormInv == FormOf(overlay, form)

\* What is set is what is in effect, and displayed it would read as itself.
SettingsInv ==
  /\ storage = [f \in AllFields |-> storage[f]] /\ \A f \in AllFields : storage[f] \in Valid(f)
  /\ live = storage

AppInv == PanesInv /\ ComposerInv /\ FormInv /\ SettingsInv /\ (quit \/ FrameIsFresh)

LEMMA ChatsFacts == Len(ChatRows) \in Nat /\ DOMAIN ChatRows = 1 .. Len(ChatRows)
<1>1. ChatRows \in Seq(ToSet(ChatRows))
  BY ReducerAssumption
<1> QED
  BY <1>1

LEMMA FoundFacts == \A hits \in Answers \cup People : Len(hits) \in Nat
<1>1. \A hits \in Answers \cup People : hits \in Seq(ToSet(hits))
  BY ReducerAssumption
<1> QED
  BY <1>1

LEMMA StepFacts ==
  ASSUME NEW n \in Nat, NEW row, InList(row, n), NEW by
  PROVE  InList(StepRow(row, n, by), n)
BY DEF InList, StepRow

\* A list draws the row selected, and a line of it is a row.
LEMMA DrawnFacts ==
  ASSUME NEW n \in Nat \ {0}, NEW row, InList(row, n)
  PROVE  /\ row \in DrawnRows(row, n) /\ DrawnRows(row, n) \subseteq 1 .. n
         /\ \A line \in DrawnLines(n) : RowAt(row, line) \in DrawnRows(row, n)
<1>1. ListRows \in Nat \ {0} /\ row \in 1 .. n
  BY FormsAssumption DEF InList
<1>2. /\ Offset(row) \in Nat
      /\ \A line \in DrawnLines(n) : Offset(row) + line \in 1 .. n
      /\ \E line \in DrawnLines(n) : row = Offset(row) + line
  <2>1. CASE row <= ListRows
    <3>1. Offset(row) = 0 /\ row \in DrawnLines(n) /\ DrawnLines(n) \subseteq 1 .. n
      BY <1>1, <2>1 DEF Offset, DrawnLines
    <3> QED
      BY <1>1, <3>1
  <2>2. CASE row > ListRows
    <3>1. Offset(row) = row - ListRows /\ DrawnLines(n) = 1 .. ListRows
      BY <1>1, <2>2 DEF Offset, DrawnLines
    <3>2. ListRows \in DrawnLines(n) /\ row = (row - ListRows) + ListRows
      BY <1>1, <3>1
    <3> QED
      BY <1>1, <2>2, <3>1, <3>2
  <2> QED
    BY <1>1, <2>1, <2>2
<1> QED
  BY <1>2 DEF DrawnRows, RowAt

-----------------------------------------------------------------------------
(* What a step is for the frame, for the settings and for the drives.      *)

\* Intents which concern neither the settings nor what is on screen.
Aside(intents) == \A i \in intents : i.kind \in {"older", "typing", "resync", "logout"}

\* The actions whose intents are about what is on screen.
Acts ==
  \/ ComposerSubmit \/ PinToggle \/ CopyMessage \/ SaveMedia \/ SearchSubmit
  \/ ConfirmSearchResult \/ ConfirmForward \/ ConfirmReaction \/ Agree

Drawing == \E intents : TurnEnds(TRUE, intents)
Plainly == \E intents : Aside(intents) /\ TurnEnds(TRUE, intents)

LEMMA PanesActions ==
  ASSUME \/ Render \/ Reproject \/ Notified \/ NoticeTick
         \/ CycleFocus \/ SetFocus \/ ToggleChatListCollapse \/ MoveCursor \/ OpenChat
         \/ SelectMessageAt \/ Scroll \/ JumpToQuoted \/ Resync \/ NoticeDismiss
  PROVE  ~quit /\ UNCHANGED storage /\ Plainly
<1>1. Repaint => Plainly
  BY DEF Repaint, Plainly, Aside
<1>2. CASE Scroll
  <2>1. PICK a \in {"ScrollDown", "ScrollUp", "PageDown", "PageUp", "JumpToNewest"},
             older \in SUBSET {Intent("older", 0, 0)} :
          On(a) /\ Beneath /\ TurnEnds(TRUE, older)
    BY <1>2 DEF Scroll
  <2>2. Aside(older)
    BY DEF Aside, Intent
  <2> QED
    BY <2>1, <2>2 DEF On, Beneath, held, Plainly
<1>3. CASE Resync
  <2>1. Aside({Intent("resync", 0, 0)})
    BY DEF Aside, Intent
  <2> QED
    BY <1>3, <2>1 DEF Resync, On, held, Hand, Plainly
<1>4. CASE Render
  BY <1>1, <1>4 DEF Render, appVars, held
<1>5. CASE Reproject \/ Notified \/ NoticeTick
  BY <1>1, <1>5 DEF Reproject, Notified, NoticeTick, held
<1>6. CASE CycleFocus \/ SetFocus \/ ToggleChatListCollapse
  BY <1>1, <1>6 DEF CycleFocus, SetFocus, ToggleChatListCollapse, On, Beneath, held
<1>7. CASE MoveCursor \/ OpenChat \/ SelectMessageAt
  BY <1>1, <1>7 DEF MoveCursor, OpenChat, SelectMessageAt, On, Beneath, held
<1>8. CASE JumpToQuoted \/ NoticeDismiss
  BY <1>1, <1>8 DEF JumpToQuoted, NoticeDismiss, On, Beneath, held
<1> QED
  BY <1>2, <1>3, <1>4, <1>5, <1>6, <1>7, <1>8

LEMMA ComposerActions ==
  ASSUME ComposerInput \/ ComposerBackspace \/ ComposerCancel \/ ReplyMessage \/ EditMessage
  PROVE  ~quit /\ UNCHANGED storage /\ Plainly
<1>1. Repaint => Plainly
  BY DEF Repaint, Plainly, Aside
<1>2. Aside(Ping) /\ Aside({})
  BY DEF Aside, Ping, Intent
<1>3. CASE ComposerInput
  BY <1>2, <1>3 DEF ComposerInput, In, On, Writes, held, Plainly
<1>4. CASE ComposerBackspace
  <2>1. PICK t \in Backspaced(composer.text) : TurnEnds(TRUE, IF t = "empty" THEN {} ELSE Ping)
    BY <1>4 DEF ComposerBackspace
  <2>2. Plainly
    BY <1>2, <2>1 DEF Plainly
  <2> QED
    BY <1>4, <2>2 DEF ComposerBackspace, In, On, Writes, held
<1>5. CASE ComposerCancel
  BY <1>1, <1>5 DEF ComposerCancel, On, Writes, held
<1>6. CASE ReplyMessage
  BY <1>1, <1>6 DEF ReplyMessage, OnSelected, On, held
<1>7. CASE EditMessage
  BY <1>1, <1>7 DEF EditMessage, OnSelected, On, Explain, held
<1> QED
  BY <1>3, <1>4, <1>5, <1>6, <1>7

LEMMA OverlayActions ==
  ASSUME \/ Answered \/ OpenOverlay \/ Cancel \/ EditLine \/ EditSettings \/ NextField
         \/ MoveRow \/ EnterCustom \/ HelpScroll \/ ConfirmContact \/ ForwardOpen \/ LogoutConfirm
  PROVE  ~quit /\ UNCHANGED storage /\ Plainly
<1>1. Repaint => Plainly
  BY DEF Repaint, Plainly, Aside
<1>2. Under => UNCHANGED storage
  BY DEF Under, held
<1>3. CASE Answered
  BY <1>1, <1>2, <1>3 DEF Answered, SetResults, Edits
<1>4. CASE OpenOverlay
  BY <1>1, <1>2, <1>4 DEF OpenOverlay, Opens, In, On
<1>5. CASE Cancel
  BY <1>1, <1>2, <1>5 DEF Cancel, On
<1>6. CASE EditLine
  BY <1>1, <1>2, <1>6 DEF EditLine, Edits, On
<1>7. CASE EditSettings \/ NextField
  BY <1>1, <1>2, <1>7 DEF EditSettings, NextField, Edits, In, On
<1>8. CASE MoveRow \/ EnterCustom \/ HelpScroll
  BY <1>1, <1>2, <1>8 DEF MoveRow, EnterCustom, HelpScroll, Edits, In, On
<1>9. CASE ConfirmContact \/ ForwardOpen
  BY <1>1, <1>2, <1>9 DEF ConfirmContact, Highlighted, ForwardOpen, In, On
<1>10. CASE LogoutConfirm
  <2>1. Aside({Intent("logout", 0, 0)})
    BY DEF Aside, Intent
  <2> QED
    BY <1>10, <2>1 DEF LogoutConfirm, In, On, Hand, Plainly
<1> QED
  BY <1>3, <1>4, <1>5, <1>6, <1>7, <1>8, <1>9, <1>10

LEMMA ActsActions ==
  ASSUME Acts
  PROVE  ~quit /\ UNCHANGED storage /\ Drawing
<1>1. Under => UNCHANGED storage
  BY DEF Under, held
<1>2. \A i : Hand(i) => Drawing
  BY DEF Hand, Drawing
<1>3. Repaint => Drawing
  BY DEF Repaint, Drawing
<1>4. CASE ComposerSubmit
  BY <1>2, <1>4 DEF ComposerSubmit, On, Writes, held
<1>5. CASE PinToggle \/ CopyMessage \/ SaveMedia
  BY <1>2, <1>3, <1>5 DEF PinToggle, CopyMessage, SaveMedia, OnSelected, Takes, Explain, On, appVars, held
<1>6. CASE SearchSubmit \/ Agree
  BY <1>1, <1>2, <1>6 DEF SearchSubmit, Agree, In, On
<1>7. CASE ConfirmSearchResult
  BY <1>2, <1>7 DEF ConfirmSearchResult, Highlighted, In, On, held
<1>8. CASE ConfirmForward
  BY <1>1, <1>2, <1>8 DEF ConfirmForward, Highlighted, In, On
<1>9. CASE ConfirmReaction
  BY <1>1, <1>9 DEF ConfirmReaction, Highlighted, In, On, Drawing
<1> QED
  BY <1>4, <1>5, <1>6, <1>7, <1>8, <1>9 DEF Acts

LEMMA Steps ==
  ASSUME AppNext
  PROVE  \/ ~quit /\ UNCHANGED storage /\ Plainly
         \/ Acts /\ ~quit /\ UNCHANGED storage /\ Drawing
         \/ Reanchor \/ Resize \/ Ignored \/ Quit \/ SettingsConfirm
BY PanesActions, ComposerActions, OverlayActions, ActsActions DEF AppNext, Acts

-----------------------------------------------------------------------------
(* The frame.                                                              *)
LEMMA FrameStep ==
  ASSUME PanesInv, quit \/ FrameIsFresh, AppNext
  PROVE  (quit \/ FrameIsFresh)'
<1>1. ASSUME Drawing
      PROVE  quit' \/ FrameIsFresh'
  BY <1>1 DEF Drawing, TurnEnds, FrameIsFresh
<1>2. CASE Reanchor
  <2>1. PICK m \in pane.loaded : pane' = [pane EXCEPT !.sel = m]
    BY <1>2 DEF Reanchor
  <2>2. /\ ~quit /\ frame' = frame /\ dirty' = TRUE
        /\ UNCHANGED <<focus, collapsed, cursor, composer, overlay, form, toast>>
    BY <1>2 DEF Reanchor, modal
  <2>3. pane' = [loaded |-> pane.loaded, sel |-> m] /\ pane = [loaded |-> pane.loaded, sel |-> pane.sel]
    BY <2>1 DEF PanesInv, Panes
  <2>4. [frame EXCEPT !.pane.sel = pane.sel] = View
    <3>1. CASE frame = View
      BY <2>3, <3>1 DEF View
    <3> QED
      BY <2>2, <3>1 DEF FrameIsFresh
  <2>5. View' = [View EXCEPT !.pane.sel = m]
    BY <2>2, <2>3 DEF View
  <2>6. [frame EXCEPT !.pane.sel = m] = [[frame EXCEPT !.pane.sel = pane.sel] EXCEPT !.pane.sel = m]
    OBVIOUS
  <2>7. pane'.sel = m
    BY <2>3
  <2> QED
    BY <2>2, <2>4, <2>5, <2>6, <2>7 DEF FrameIsFresh
<1>3. CASE Resize
  <2>1. View' = View /\ frame' = View
    BY <1>3 DEF Resize, appVars, panes, modal, View
  <2> QED
    BY <2>1 DEF FrameIsFresh
<1>4. CASE Ignored
  <2>1. View' = View
    BY <1>4 DEF Ignored, appVars, panes, modal, View
  <2>2. ~quit /\ dirty' = FALSE /\ frame' = IF dirty /\ ~quit' THEN View' ELSE frame
    BY <1>4 DEF Ignored, Quiet, TurnEnds
  <2> QED
    BY <2>1, <2>2 DEF FrameIsFresh
<1>5. CASE Quit
  BY <1>5 DEF Quit
<1>6. CASE SettingsConfirm
  BY <1>1, <1>6 DEF SettingsConfirm, Repaint, Drawing
<1>7. Plainly => Drawing
  BY DEF Plainly, Drawing
<1> QED
  BY <1>1, <1>2, <1>3, <1>4, <1>5, <1>6, <1>7, Steps

\* The next event finds the frame as App is, but for the selection given back after a draw.
LEMMA FrameFacts ==
  ASSUME PanesInv, FrameIsFresh
  PROVE  /\ frame.composer = composer /\ frame.overlay = overlay /\ frame.form = form
         /\ frame.collapsed = collapsed
         /\ dirty \/ frame.pane.sel = pane.sel
<1>1. CASE frame = View
  BY <1>1 DEF View
<1>2. CASE dirty /\ [frame EXCEPT !.pane.sel = pane.sel] = View
  <2>1. DOMAIN frame = DOMAIN View
    BY <1>2
  <2>2. \A x \in DOMAIN View \ {"pane"} : frame[x] = View[x]
    BY <1>2, <2>1
  <2> QED
    BY <1>2, <2>2 DEF View
<1> QED
  BY <1>1, <1>2 DEF FrameIsFresh

-----------------------------------------------------------------------------
(* The settings.                                                           *)
LEMMA EffectFacts ==
  ASSUME SettingsInv, NEW touched, NEW intents, TurnEnds(touched, intents), UNCHANGED storage,
         \A i \in intents : i.kind \notin {"storage", "graphics"}
  PROVE  SettingsInv'
<1>1. live' = InEffect(intents)
  BY DEF TurnEnds
<1>2. InEffect(intents) = [f \in AllFields |-> live[f]]
  <2>1. ASSUME NEW f \in AllFields
        PROVE  {i.by[f] : i \in {x \in intents : x.kind = IF f = "graphics" THEN "graphics" ELSE "storage"}} = {}
    OBVIOUS
  <2> QED
    BY <2>1, Zenon DEF InEffect
<1> QED
  BY <1>1, <1>2 DEF SettingsInv

\* What a form that is accepted sets.
LEMMA ConfirmedFacts ==
  ASSUME NEW d, Refused(d) = {}
  PROVE  /\ Confirmed(d) = [f \in AllFields |-> Confirmed(d)[f]]
         /\ \A f \in AllFields :
              /\ Confirmed(d)[f] \in Valid(f) /\ ParseField(f, d.says[f]) = {Confirmed(d)[f]}
<1>1. ASSUME NEW f \in AllFields
      PROVE  ParseField(f, d.says[f]) # {}
  <2>1. PICK i \in DOMAIN Fields : Fields[i] = f
    <3>1. /\ 1 \in DOMAIN Fields /\ 2 \in DOMAIN Fields /\ 3 \in DOMAIN Fields
          /\ 4 \in DOMAIN Fields /\ 5 \in DOMAIN Fields
      BY DEF Fields
    <3>2. /\ Fields[1] = "private" /\ Fields[2] = "groups" /\ Fields[3] = "channels"
          /\ Fields[4] = "cache" /\ Fields[5] = "graphics"
      BY DEF Fields
    <3> QED
      BY <3>1, <3>2 DEF AllFields, StorageFields, KeepFields
  <2> QED
    BY <2>1 DEF Refused
<1>2. Confirmed(d) = [f \in AllFields |-> CHOOSE v \in ParseField(f, d.says[f]) : TRUE]
  BY DEF Confirmed
<1>3. ASSUME NEW f \in AllFields
      PROVE  Confirmed(d)[f] \in ParseField(f, d.says[f])
  <2>1. \E v : v \in ParseField(f, d.says[f])
    BY <1>1
  <2> QED
    BY <1>2, <2>1
<1> QED
  BY <1>2, <1>3, ParsedOnce

LEMMA NoEffect ==
  ASSUME SettingsInv, NEW touched, TurnEnds(touched, {}), UNCHANGED storage
  PROVE  SettingsInv'
<1>1. \A i \in {} : i.kind \notin {"storage", "graphics"}
  OBVIOUS
<1> QED
  BY <1>1, EffectFacts

LEMMA ConfirmSettings ==
  ASSUME SettingsInv, SettingsConfirm
  PROVE  SettingsInv'
<1>1. CASE Refused(form) # {}
  <2>1. UNCHANGED storage /\ TurnEnds(TRUE, {})
    BY <1>1 DEF SettingsConfirm, Repaint
  <2> QED
    BY <2>1, NoEffect
<1>2. CASE Refused(form) = {}
  <2>1. storage' = Confirmed(form) /\ TurnEnds(TRUE, SettingsIntents(storage'))
    BY <1>2 DEF SettingsConfirm
  <2>2. storage' = [f \in AllFields |-> storage'[f]] /\ \A f \in AllFields : storage'[f] \in Valid(f)
    BY <1>2, <2>1, ConfirmedFacts
  <2>3. ASSUME NEW f \in AllFields
        PROVE  InEffect(SettingsIntents(storage'))[f] = storage'[f]
    <3> DEFINE kind == IF f = "graphics" THEN "graphics" ELSE "storage"
               new == {i.by[f] : i \in {x \in SettingsIntents(storage') : x.kind = kind}}
    <3>1. InEffect(SettingsIntents(storage'))[f] = IF new = {} THEN live[f] ELSE CHOOSE v \in new : TRUE
      BY DEF InEffect
    <3>2. CASE f # "graphics"
      <4>1. Intent("storage", 0, storage') \in SettingsIntents(storage')
        BY DEF SettingsIntents
      <4>2. \A x \in SettingsIntents(storage') : x.by = storage'
        BY DEF SettingsIntents, Intent
      <4>3. new = {storage'[f]}
        BY <3>2, <4>1, <4>2 DEF Intent
      <4> QED
        BY <3>1, <4>3
    <3>3. CASE f = "graphics" /\ storage'[f] # storage[f]
      <4>1. Intent("graphics", 0, storage') \in SettingsIntents(storage')
        BY <3>3 DEF SettingsIntents
      <4>2. \A x \in SettingsIntents(storage') : x.by = storage'
        BY DEF SettingsIntents, Intent
      <4>3. new = {storage'[f]}
        BY <3>3, <4>1, <4>2 DEF Intent
      <4> QED
        BY <3>1, <4>3
    <3>4. CASE f = "graphics" /\ storage'[f] = storage[f]
      <4>1. SettingsIntents(storage') = {Intent("storage", 0, storage')}
        BY <3>4 DEF SettingsIntents
      <4>2. new = {}
        BY <3>4, <4>1 DEF Intent
      <4> QED
        BY <3>1, <3>4, <4>2 DEF SettingsInv
    <3> QED
      BY <3>2, <3>3, <3>4
  <2>4. live' = InEffect(SettingsIntents(storage'))
    BY <2>1 DEF TurnEnds
  <2>5. live' = [f \in AllFields |-> live'[f]]
    BY <2>4 DEF InEffect
  <2>6. \A f \in AllFields : live'[f] = storage'[f]
    BY <2>3, <2>4
  <2>7. live' = storage'
    BY <2>2, <2>5, <2>6
  <2> QED
    BY <2>2, <2>7 DEF SettingsInv
<1> QED
  BY <1>1, <1>2

LEMMA ActsKinds ==
  ASSUME ComposerInv, Acts
  PROVE  \E intents : TurnEnds(TRUE, intents) /\ \A i \in intents : i.kind \notin {"storage", "graphics"}
<1> DEFINE Other(intents) == \A i \in intents : i.kind \notin {"storage", "graphics"}
<1>1. SUFFICES \E intents : TurnEnds(TRUE, intents) /\ Other(intents)
  OBVIOUS
<1>2. Other({}) /\ \A k, on, by : k \notin {"storage", "graphics"} => Other({Intent(k, on, by)})
  BY DEF Intent
<1> HIDE DEF Other
<1>3. CASE ComposerSubmit
  BY <1>2, <1>3 DEF ComposerSubmit, Hand, ComposerInv
<1>4. CASE PinToggle \/ CopyMessage \/ SaveMedia
  BY <1>2, <1>4 DEF PinToggle, CopyMessage, SaveMedia, Takes, Explain, Repaint, Hand
<1>5. CASE SearchSubmit
  BY <1>2, <1>5 DEF SearchSubmit, In, Hand
<1>6. CASE ConfirmSearchResult \/ ConfirmForward \/ Agree
  BY <1>2, <1>6 DEF ConfirmSearchResult, ConfirmForward, Agree, Hand
<1>7. CASE ConfirmReaction
  <2>1. PICK f \in Highlighted("Reaction") :
          TurnEnds(TRUE, {Intent("react", pane.sel, e) : e \in {x \in ConfirmedEmoji(f) : pane.sel # 0}})
    BY <1>7 DEF ConfirmReaction
  <2>2. Other({Intent("react", pane.sel, e) : e \in {x \in ConfirmedEmoji(f) : pane.sel # 0}})
    BY DEF Other, Intent
  <2> QED
    BY <2>1, <2>2
<1> QED
  BY <1>3, <1>4, <1>5, <1>6, <1>7 DEF Acts

LEMMA SettingsStep ==
  ASSUME ComposerInv, SettingsInv, AppNext
  PROVE  SettingsInv'
<1>1. CASE UNCHANGED storage /\ Plainly
  BY <1>1, EffectFacts DEF Plainly, Aside
<1>2. CASE Acts /\ UNCHANGED storage
  BY <1>2, ActsKinds, EffectFacts
<1>3. CASE Reanchor \/ Resize
  BY <1>3 DEF Reanchor, Resize, appVars, held, SettingsInv
<1>4. CASE Ignored \/ Quit
  <2>1. UNCHANGED storage /\ TurnEnds(FALSE, {})
    BY <1>4 DEF Ignored, Quit, Quiet, appVars, held
  <2> QED
    BY <2>1, NoEffect
<1> QED
  BY <1>1, <1>2, <1>3, <1>4, ConfirmSettings, Steps

-----------------------------------------------------------------------------
(* The panes and the composer.                                             *)
LEMMA PanesStep ==
  ASSUME PanesInv, AppNext
  PROVE  PanesInv'
<1>1. UNCHANGED <<pane, cursor>> => PanesInv'
  BY DEF PanesInv
<1>2. UNCHANGED panes => UNCHANGED <<pane, cursor>>
  BY DEF panes
<1>3. Under => UNCHANGED panes
  BY DEF Under
<1>4. Projects => pane' \in Panes
  BY DEF Projects, PanesInv
<1>5. CASE Reanchor
  <2>1. PICK m \in pane.loaded : pane' = [pane EXCEPT !.sel = m]
    BY <1>5 DEF Reanchor
  <2>2. pane' \in Panes
    BY <2>1 DEF PanesInv, Panes
  <2> QED
    BY <1>5, <2>2 DEF Reanchor, PanesInv
<1>6. CASE Resize \/ Render \/ Ignored \/ Notified \/ NoticeTick
  BY <1>1, <1>2, <1>6 DEF Resize, Render, Ignored, Notified, NoticeTick, appVars
<1>7. CASE Reproject
  BY <1>7 DEF Reproject, PanesInv
<1>8. CASE CycleFocus \/ SetFocus \/ ToggleChatListCollapse \/ ReplyMessage
  BY <1>4, <1>8 DEF CycleFocus, SetFocus, ToggleChatListCollapse, ReplyMessage, PanesInv
<1>9. CASE MoveCursor
  <2>1. \A by : InList(StepRow(cursor, Len(ChatRows), by), Len(ChatRows))
    BY ChatsFacts, StepFacts DEF PanesInv
  <2>2. InList(1, Len(ChatRows))
    BY DEF InList
  <2>3. InList(cursor', Len(ChatRows))
    BY <1>9, <2>1, <2>2 DEF MoveCursor
  <2> QED
    BY <1>4, <1>9, <2>3 DEF MoveCursor, PanesInv
<1>10. CASE OpenChat
  <2>1. InList(cursor', Len(ChatRows))
    BY <1>10, ChatsFacts DEF OpenChat, InList
  <2> QED
    BY <1>4, <1>10, <2>1 DEF OpenChat, PanesInv
<1>11. CASE SelectMessageAt
  <2>1. PICK m : pane' = [pane EXCEPT !.sel = IF m \in pane.loaded THEN m ELSE @]
    BY <1>11 DEF SelectMessageAt
  <2>2. pane' \in Panes
    BY <2>1 DEF PanesInv, Panes
  <2> QED
    BY <1>11, <2>2 DEF SelectMessageAt, PanesInv
<1>12. CASE Scroll
  BY <1>12 DEF Scroll, PanesInv
<1>13. CASE JumpToQuoted
  <2>1. Quotes[pane.sel] \in pane.loaded /\ pane' = [pane EXCEPT !.sel = Quotes[pane.sel]]
    BY <1>13 DEF JumpToQuoted
  <2>2. pane' \in Panes
    BY <2>1 DEF PanesInv, Panes
  <2> QED
    BY <1>13, <2>2 DEF JumpToQuoted, PanesInv
<1>14. CASE ComposerInput \/ ComposerBackspace \/ ComposerSubmit \/ ComposerCancel
  BY <1>1, <1>2, <1>14 DEF ComposerInput, ComposerBackspace, ComposerSubmit, ComposerCancel, Writes
<1>15. CASE EditMessage
  BY <1>1, <1>2, <1>4, <1>15 DEF EditMessage, Explain, PanesInv
<1>16. CASE PinToggle \/ CopyMessage \/ SaveMedia \/ Resync \/ NoticeDismiss \/ Quit
  BY <1>1, <1>2, <1>16 DEF PinToggle, CopyMessage, SaveMedia, Takes, Explain, Resync, NoticeDismiss, Quit, appVars
<1>17. CASE Answered \/ OpenOverlay \/ Cancel \/ EditLine \/ EditSettings \/ NextField
  BY <1>1, <1>2, <1>3, <1>17 DEF Answered, SetResults, OpenOverlay, Opens, Cancel, EditLine, EditSettings, NextField, Edits
<1>18. CASE MoveRow \/ EnterCustom \/ HelpScroll \/ SearchSubmit \/ ConfirmContact \/ ForwardOpen
  BY <1>1, <1>2, <1>3, <1>18 DEF MoveRow, EnterCustom, HelpScroll, SearchSubmit, ConfirmContact, ForwardOpen, Edits
<1>19. CASE ConfirmForward \/ ConfirmReaction \/ Agree \/ SettingsConfirm \/ LogoutConfirm
  BY <1>1, <1>2, <1>3, <1>19 DEF ConfirmForward, ConfirmReaction, Agree, SettingsConfirm, LogoutConfirm
<1>20. CASE ConfirmSearchResult
  <2>1. PICK c : cursor' = IF {i \in DOMAIN ChatRows : ChatRows[i] = c} = {} THEN cursor
                           ELSE CHOOSE i \in {i \in DOMAIN ChatRows : ChatRows[i] = c} : TRUE
    BY <1>20 DEF ConfirmSearchResult
  <2>2. cursor' = cursor \/ cursor' \in DOMAIN ChatRows
    BY <2>1
  <2>3. InList(cursor', Len(ChatRows))
    BY <2>2, ChatsFacts DEF InList, PanesInv
  <2> QED
    BY <1>4, <1>20, <2>3 DEF ConfirmSearchResult, PanesInv
<1> QED
  BY <1>5, <1>6, <1>7, <1>8, <1>9, <1>10, <1>11, <1>12, <1>13, <1>14, <1>15, <1>16, <1>17, <1>18,
     <1>19, <1>20 DEF AppNext

LEMMA ComposerStep ==
  ASSUME ComposerInv, AppNext
  PROVE  ComposerInv'
<1>1. UNCHANGED composer => ComposerInv'
  BY DEF ComposerInv
<1>2. Under => UNCHANGED composer
  BY DEF Under
<1>3. ASSUME composer' = Fresh
      PROVE  ComposerInv'
  BY <1>3 DEF Fresh, ComposerInv
<1>4. ASSUME NEW t, composer' = [composer EXCEPT !.text = t]
      PROVE  ComposerInv'
  BY <1>4 DEF ComposerInv
<1>5. CASE Reanchor \/ Resize \/ Render \/ Ignored \/ Reproject \/ Notified \/ NoticeTick
  BY <1>1, <1>5 DEF Reanchor, Resize, Render, Ignored, Reproject, Notified, NoticeTick, appVars
<1>6. CASE \/ CycleFocus \/ SetFocus \/ ToggleChatListCollapse \/ MoveCursor \/ OpenChat
           \/ SelectMessageAt \/ Scroll \/ JumpToQuoted
  BY <1>1, <1>6 DEF CycleFocus, SetFocus, ToggleChatListCollapse, MoveCursor, OpenChat,
     SelectMessageAt, Scroll, JumpToQuoted, Beneath
<1>7. CASE ComposerInput \/ ComposerBackspace
  BY <1>4, <1>7 DEF ComposerInput, ComposerBackspace, Writes
<1>8. CASE ComposerSubmit \/ ComposerCancel
  BY <1>3, <1>8 DEF ComposerSubmit, ComposerCancel, Writes
<1>9. CASE ReplyMessage
  BY <1>9 DEF ReplyMessage, ComposerInv
<1>10. CASE EditMessage
  BY <1>1, <1>10 DEF EditMessage, Explain, ComposerInv
<1>11. CASE PinToggle \/ CopyMessage \/ SaveMedia \/ Resync \/ NoticeDismiss \/ Quit
  BY <1>1, <1>11 DEF PinToggle, CopyMessage, SaveMedia, Takes, Explain, Resync, NoticeDismiss, Quit, appVars
<1>12. CASE Answered \/ OpenOverlay \/ Cancel \/ EditLine \/ EditSettings \/ NextField
  BY <1>1, <1>2, <1>12 DEF Answered, SetResults, OpenOverlay, Opens, Cancel, EditLine, EditSettings, NextField, Edits
<1>13. CASE MoveRow \/ EnterCustom \/ HelpScroll \/ SearchSubmit \/ ConfirmContact \/ ForwardOpen
  BY <1>1, <1>2, <1>13 DEF MoveRow, EnterCustom, HelpScroll, SearchSubmit, ConfirmContact, ForwardOpen, Edits
<1>14. CASE \/ ConfirmSearchResult \/ ConfirmForward \/ ConfirmReaction \/ Agree
            \/ SettingsConfirm \/ LogoutConfirm
  BY <1>1, <1>2, <1>14 DEF ConfirmSearchResult, ConfirmForward, ConfirmReaction, Agree, SettingsConfirm, LogoutConfirm
<1> QED
  BY <1>5, <1>6, <1>7, <1>8, <1>9, <1>10, <1>11, <1>12, <1>13, <1>14 DEF AppNext

-----------------------------------------------------------------------------
(* The overlays.                                                           *)

LEMMA FormStep ==
  ASSUME PanesInv, FormInv, AppNext
  PROVE  FormInv'
<1>1. UNCHANGED <<overlay, form>> => FormInv'
  BY DEF FormInv, FormOf
<1>2. Close => FormInv'
  BY DEF Close, FormInv, FormOf
<1>3. ASSUME NEW o, NEW f, Open(o, f), FormOf(o, f)
      PROVE  FormInv'
  BY <1>3 DEF Open, FormInv
<1>4. \A o, f : o \in {"None", "Help", "SearchInput", "ContactSearchInput", "SendMedia",
                       "SecretChat", "LogoutConfirm"} => FormOf(o, f)
  BY DEF FormOf
<1>5. CASE \/ Reanchor \/ Resize \/ Render \/ Ignored \/ Reproject \/ Notified \/ NoticeTick
           \/ CycleFocus \/ SetFocus \/ ToggleChatListCollapse \/ MoveCursor \/ OpenChat
           \/ SelectMessageAt \/ Scroll \/ JumpToQuoted
  BY <1>1, <1>5 DEF Reanchor, Resize, Render, Ignored, Reproject, Notified, NoticeTick, appVars,
     CycleFocus, SetFocus, ToggleChatListCollapse, MoveCursor, OpenChat, SelectMessageAt, Scroll,
     JumpToQuoted, Beneath, modal
<1>6. CASE \/ ComposerInput \/ ComposerBackspace \/ ComposerSubmit \/ ComposerCancel
           \/ ReplyMessage \/ EditMessage \/ PinToggle \/ CopyMessage \/ SaveMedia
           \/ Resync \/ NoticeDismiss \/ Quit
  BY <1>1, <1>6 DEF ComposerInput, ComposerBackspace, ComposerSubmit, ComposerCancel, Writes,
     ReplyMessage, EditMessage, Explain, PinToggle, CopyMessage, SaveMedia, Takes, Resync,
     NoticeDismiss, Quit, appVars, modal
<1>7. CASE \/ ConfirmSearchResult \/ ConfirmForward \/ ConfirmReaction \/ Agree \/ LogoutConfirm
  BY <1>2, <1>7 DEF ConfirmSearchResult, ConfirmForward, ConfirmReaction, Agree, LogoutConfirm
<1>8. CASE Answered
  <2>1. ASSUME NEW hits \in Answers \cup People, SetResults(form, hits),
               overlay \in {"SearchResults", "ContactSearchResults"}
        PROVE  FormInv'
    <3>1. PICK found, row : form = [hits |-> found, row |-> row]
      BY <2>1 DEF FormInv, FormOf, IsResults
    <3>2. overlay' = overlay /\ form' = [form EXCEPT !.hits = hits, !.row = 1]
      BY <2>1 DEF SetResults, Open
    <3>3. form' = [hits |-> hits, row |-> 1]
      BY <3>1, <3>2
    <3>4. IsResults(form')
      BY <3>3, FoundFacts DEF IsResults, InList
    <3> QED
      BY <2>1, <3>2, <3>4 DEF FormInv, FormOf
  <2>2. CASE overlay = "SearchResults" /\ \E hits \in Answers : SetResults(form, hits)
    BY <2>1, <2>2
  <2>3. CASE overlay = "ContactSearchResults" /\ \E hits \in People : SetResults(form, hits)
    BY <2>1, <2>3
  <2>4. CASE /\ overlay = "Forward" /\ form.back # NoForm
             /\ \E hits \in Answers : Edits([form EXCEPT !.back = [hits |-> hits, row |-> 1]])
    <3>1. PICK hits \in Answers : Edits([form EXCEPT !.back = [hits |-> hits, row |-> 1]])
      BY <2>4
    <3>2. IsResults([hits |-> hits, row |-> 1])
      BY FoundFacts DEF IsResults, InList
    <3>3. FormOf(overlay, [form EXCEPT !.back = [hits |-> hits, row |-> 1]])
      BY <2>4, <3>2 DEF FormInv, FormOf
    <3> QED
      BY <1>3, <3>1, <3>3 DEF Edits
  <2> QED
    BY <1>8, <2>2, <2>3, <2>4 DEF Answered
<1>9. CASE OpenOverlay
  <2>1. ASSUME NEW a, NEW o, NEW f, Opens(a, o, f), FormOf(o, f)
        PROVE  FormInv'
    BY <1>3, <2>1 DEF Opens
  <2>2. FormOf("Settings", FromSettings(storage))
    <3>1. DOMAIN Fields = 1 .. 5
      BY DEF Fields
    <3> QED
      BY <3>1 DEF FormOf, FromSettings
  <2>3. FormOf("Reaction", NewPicker)
    BY FormsAssumption DEF FormOf, NewPicker, InList
  <2>4. FormOf("DeleteConfirm", [of |-> pane.sel, revoke |-> FALSE])
    BY DEF FormOf
  <2>5. FormOf("Forward", [of |-> pane.sel, row |-> cursor, back |-> NoForm])
    BY DEF FormOf, PanesInv
  <2> QED
    BY <1>4, <1>9, <2>1, <2>2, <2>3, <2>4, <2>5 DEF OpenOverlay
<1>10. CASE Cancel
  <2>1. CASE overlay = "Forward" /\ form.back # NoForm
    <3>1. FormOf("SearchResults", form.back)
      BY <2>1 DEF FormInv, FormOf
    <3> QED
      BY <1>3, <1>10, <2>1, <3>1 DEF Cancel
  <2>2. CASE overlay = "Reaction" /\ IsCustom(form)
    <3>1. FormOf(overlay, [form EXCEPT !.custom = "none"])
      BY <2>2 DEF FormInv, FormOf
    <3>2. Open(overlay, [form EXCEPT !.custom = "none"])
      BY <1>10, <2>2 DEF Cancel
    <3> QED
      BY <1>3, <3>1, <3>2
  <2>3. CASE ~(overlay = "Forward" /\ form.back # NoForm) /\ ~(overlay = "Reaction" /\ IsCustom(form))
    BY <1>2, <1>10, <2>3 DEF Cancel
  <2> QED
    BY <2>1, <2>2, <2>3
<1>11. ASSUME NEW f, Edits(f), FormOf(overlay, f)
       PROVE  FormInv'
  BY <1>3, <1>11 DEF Edits
<1>12. CASE EditLine
  <2>1. ASSUME NEW t, overlay \in TextOverlays \ {"Settings"}
        PROVE  FormOf(overlay, WithLine(t))
    <3>1. CASE overlay = "Reaction"
      <4>1. WithLine(t) = [form EXCEPT !.custom = t]
        BY <3>1 DEF WithLine
      <4> QED
        BY <3>1, <4>1 DEF FormInv, FormOf
    <3>2. CASE overlay # "Reaction"
      BY <1>4, <2>1, <3>2 DEF TextOverlays
    <3> QED
      BY <3>1, <3>2
  <2> QED
    BY <1>11, <1>12, <2>1 DEF EditLine
<1>13. CASE EditSettings
  <2>1. overlay = "Settings"
    BY <1>13 DEF EditSettings, In
  <2>2. ASSUME NEW s
        PROVE  FormOf(overlay, EditField(form, s))
    <3>1. PICK says, at, error :
            at \in DOMAIN Fields /\ form = [says |-> says, at |-> at, error |-> error]
      BY <2>1 DEF FormInv, FormOf
    <3> DEFINE t == [form.says EXCEPT ![Fields[form.at]] = s]
    <3>2. EditField(form, s) = [form EXCEPT !.says = t, !.error = FALSE]
      BY DEF EditField
    <3> HIDE DEF t
    <3>3. EditField(form, s) = [says |-> t, at |-> at, error |-> FALSE]
      BY <3>1, <3>2
    <3> DEFINE d == EditField(form, s)
    <3>4. d = [says |-> d.says, at |-> d.at, error |-> d.error] /\ d.at = at /\ d.error = FALSE
      BY <3>3
    <3> HIDE DEF d
    <3>5. FormOf("Settings", d)
      BY <3>1, <3>4 DEF FormOf
    <3> QED
      BY <2>1, <3>5 DEF d
  <2> QED
    BY <1>11, <1>13, <2>2 DEF EditSettings
<1>14. CASE NextField
  <2>1. ASSUME overlay = "Settings", NEW by \in {1, 4}
        PROVE  FormOf(overlay, MoveField(form, by))
    <3>1. DOMAIN Fields = 1 .. 5 /\ Len(Fields) = 5
      BY DEF Fields
    <3>2. PICK says, at, error :
            at \in 1 .. 5 /\ form = [says |-> says, at |-> at, error |-> error]
      BY <2>1, <3>1 DEF FormInv, FormOf
    <3>3. ((at + by - 1) % 5) + 1 \in 1 .. 5
      BY <3>2
    <3>4. MoveField(form, by) = [says |-> says, at |-> ((at + by - 1) % 5) + 1, error |-> FALSE]
      <4>1. MoveField(form, by) = [form EXCEPT !.at = ((at + by - 1) % 5) + 1, !.error = FALSE]
        BY <3>1, <3>2 DEF MoveField
      <4> QED
        BY <3>2, <4>1
    <3> QED
      BY <2>1, <3>1, <3>3, <3>4 DEF FormOf
  <2>2. ASSUME overlay = "DeleteConfirm"
        PROVE  FormOf(overlay, IF form.of \in Own THEN [form EXCEPT !.revoke = ~@] ELSE form)
    BY <2>2 DEF FormInv, FormOf
  <2>3. Len(Fields) = 5
    BY DEF Fields
  <2> QED
    BY <1>4, <1>11, <1>14, <2>1, <2>2, <2>3 DEF NextField, In
<1>15. CASE MoveRow
  <2>1. PICK by \in {"Next", "Prev"} : Edits([form EXCEPT !.row = StepRow(@, Length(overlay, form), by)])
    BY <1>15 DEF MoveRow
  <2>2. overlay \in Lists
    BY <1>15 DEF MoveRow
  <2>3. Length(overlay, form) \in Nat /\ InList(form.row, Length(overlay, form))
    BY <2>2, ChatsFacts, FormsAssumption DEF Lists, Length, FormInv, FormOf, IsResults
  <2>4. InList(StepRow(form.row, Length(overlay, form), by), Length(overlay, form))
    BY <2>3, StepFacts
  <2> DEFINE f == [form EXCEPT !.row = StepRow(form.row, Length(overlay, form), by)]
  <2>5. CASE overlay \in {"SearchResults", "ContactSearchResults"}
    <3>1. f = [hits |-> form.hits, row |-> StepRow(form.row, Len(form.hits), by)]
      BY <2>5 DEF FormInv, FormOf, IsResults, Length
    <3>2. Length(overlay, form) = Len(form.hits)
      BY <2>5 DEF Length
    <3> QED
      BY <1>11, <2>1, <2>3, <2>4, <2>5, <3>1, <3>2 DEF FormOf, IsResults
  <2>6. CASE overlay = "Forward"
    <3>1. Length(overlay, form) = Len(ChatRows)
      BY <2>6 DEF Length
    <3> QED
      BY <1>11, <2>1, <2>4, <2>6, <3>1 DEF FormInv, FormOf
  <2>7. CASE overlay = "Reaction"
    <3>1. Length(overlay, form) = PaletteLen
      BY <2>7 DEF Length
    <3> QED
      BY <1>11, <2>1, <2>4, <2>7, <3>1 DEF FormInv, FormOf
  <2> QED
    BY <2>2, <2>5, <2>6, <2>7 DEF Lists
<1>16. CASE EnterCustom
  <2>1. overlay = "Reaction" /\ Edits([form EXCEPT !.custom = "empty"])
    BY <1>16 DEF EnterCustom, In
  <2>2. FormOf(overlay, [form EXCEPT !.custom = "empty"])
    BY <2>1 DEF FormInv, FormOf
  <2> QED
    BY <1>11, <2>1, <2>2
<1>17. CASE HelpScroll
  BY <1>4, <1>11, <1>17 DEF HelpScroll, In
<1>18. CASE SearchSubmit
  <2>1. IsResults([hits |-> << >>, row |-> 1])
    BY DEF IsResults, InList
  <2>2. \A o \in {"SearchResults", "ContactSearchResults"} : FormOf(o, [hits |-> << >>, row |-> 1])
    BY <2>1 DEF FormOf
  <2> QED
    BY <1>3, <1>18, <2>2 DEF SearchSubmit
<1>19. CASE ConfirmContact
  BY <1>3, <1>4, <1>19 DEF ConfirmContact
<1>20. CASE ForwardOpen
  <2>1. IsResults(form)
    BY <1>20 DEF ForwardOpen, In, FormInv, FormOf
  <2>2. FormOf("Forward", [of |-> form.hits[form.row], row |-> cursor, back |-> form])
    BY <2>1 DEF FormOf, PanesInv
  <2> QED
    BY <1>3, <1>20, <2>2 DEF ForwardOpen
<1>21. CASE SettingsConfirm
  <2>1. CASE Refused(form) = {}
    BY <1>2, <1>21, <2>1 DEF SettingsConfirm
  <2>2. CASE Refused(form) # {}
    <3> DEFINE Foremost(i) == i \in Refused(form) /\ \A j \in Refused(form) : i <= j
    <3>1. \E i : Foremost(i)
      <4>1. Refused(form) \subseteq 1 .. 5
        BY DEF Refused, Fields
      <4> QED
        BY <2>2, <4>1
    <3>2. PICK at : at = (CHOOSE i \in Refused(form) : \A j \in Refused(form) : i <= j) /\ Foremost(at)
      BY <3>1
    <3>3. overlay = "Settings" /\ Open(overlay, Reject(form))
      BY <1>21, <2>2 DEF SettingsConfirm, In
    <3>4. Reject(form) = [says |-> form.says, at |-> at, error |-> TRUE]
      <4>1. PICK says, old, error : form = [says |-> says, at |-> old, error |-> error]
        BY <3>3 DEF FormInv, FormOf
      <4>2. Reject(form) = [form EXCEPT !.at = at, !.error = TRUE]
        BY <3>2 DEF Reject
      <4> QED
        BY <4>1, <4>2
    <3>5. at \in DOMAIN Fields /\ ParseField(Fields[at], form.says[Fields[at]]) = {}
      BY <3>2 DEF Refused
    <3>6. FormOf("Settings", Reject(form))
      BY <3>4, <3>5 DEF FormOf
    <3> QED
      BY <1>3, <3>3, <3>6
  <2> QED
    BY <2>1, <2>2
<1> QED
  BY <1>5, <1>6, <1>7, <1>8, <1>9, <1>10, <1>12, <1>13, <1>14, <1>15, <1>16, <1>17, <1>18, <1>19,
     <1>20, <1>21 DEF AppNext

-----------------------------------------------------------------------------
(* What the drives are handed.                                             *)

\* An intent read off the state is read off the frame.
Seen == \A i \in handed' : WasDrawn(i)

LEMMA OneSeen ==
  ASSUME NEW i, Hand(i), WasDrawn(i)
  PROVE  Seen
BY DEF Hand, TurnEnds, Seen

LEMMA AsideSeen ==
  ASSUME Plainly
  PROVE  Seen
<1>1. ASSUME NEW i, i.kind \in {"older", "typing", "resync", "logout"}
      PROVE  WasDrawn(i)
  BY <1>1 DEF WasDrawn
<1> QED
  BY <1>1 DEF Plainly, Aside, TurnEnds, Seen

\* The rows a list modal lets choose from are those the frame drew.
LEMMA ChosenFacts ==
  ASSUME PanesInv, FormInv, FrameIsFresh, NEW o \in Lists, NEW f \in Highlighted(o)
  PROVE  /\ overlay = o /\ ~quit /\ Length(o, form) \in Nat \ {0}
         /\ \E row : /\ f = [form EXCEPT !.row = row] /\ row \in 1 .. Length(o, form)
                     /\ Drawn(o, form) # {} => row \in Drawn(o, form)
<1> DEFINE n == Length(o, form)
<1>1. overlay = o /\ ~quit /\ n > 0
  BY DEF Highlighted, In, On
<1>2. n \in Nat /\ InList(form.row, n)
  BY <1>1, ChatsFacts, FormsAssumption DEF Lists, Length, FormInv, FormOf, IsResults
<1>3. n \in Nat \ {0}
  BY <1>1, <1>2
<1>4. PICK row : /\ f = [form EXCEPT !.row = row]
                 /\ \/ row = form.row
                    \/ \E r \in Clicked : row = IF r <= n THEN r ELSE n
  BY DEF Highlighted
<1>5. Drawn(o, form) = {} \/ Drawn(o, form) = DrawnRows(form.row, n)
  BY DEF Drawn
<1>6. frame.overlay = o /\ frame.form = form
  BY <1>1, FrameFacts
<1>7. \A r \in Clicked : Drawn(o, form) # {} /\ r \in DrawnRows(form.row, n)
  BY <1>3, <1>2, <1>6, DrawnFacts DEF Clicked
<1>8. DrawnRows(form.row, n) \subseteq 1 .. n /\ form.row \in DrawnRows(form.row, n)
  BY <1>2, <1>3, DrawnFacts
<1>9. row \in DrawnRows(form.row, n)
  <2>1. CASE row = form.row
    BY <1>8, <2>1
  <2>2. ASSUME NEW r \in Clicked, row = IF r <= n THEN r ELSE n
        PROVE  row \in DrawnRows(form.row, n)
    BY <1>7, <1>8, <2>2
  <2> QED
    BY <1>4, <2>1, <2>2
<1> QED
  BY <1>1, <1>3, <1>4, <1>5, <1>8, <1>9

\* A list without a line being typed is drawn.
LEMMA ListDrawn ==
  ASSUME PanesInv, FormInv, FrameIsFresh, NEW o \in Lists, NEW f \in Highlighted(o),
         ~(o = "Reaction" /\ IsCustom(form))
  PROVE  \E row \in Drawn(o, frame.form) : f = [form EXCEPT !.row = row] /\ row \in 1 .. Length(o, form)
<1> DEFINE n == Length(o, form)
<1>1. overlay = o /\ n \in Nat \ {0}
  BY ChosenFacts
<1>2. InList(form.row, n)
  BY <1>1, ChatsFacts, FormsAssumption DEF Lists, Length, FormInv, FormOf, IsResults
<1>3. Drawn(o, form) = DrawnRows(form.row, n)
  BY DEF Drawn
<1>4. Drawn(o, form) # {}
  BY <1>1, <1>2, <1>3, DrawnFacts
<1>5. frame.form = form
  BY FrameFacts
<1> QED
  BY <1>4, <1>5, ChosenFacts

LEMMA ActsSeen ==
  ASSUME PanesInv, ComposerInv, FormInv, FrameIsFresh, Acts
  PROVE  Seen
<1>1. /\ frame.composer = composer /\ frame.overlay = overlay /\ frame.form = form
      /\ dirty \/ frame.pane.sel = pane.sel
  BY FrameFacts
<1>2. CASE ComposerSubmit
  <2>1. Hand(Intent(composer.mode, composer.to, composer.text))
    BY <1>2 DEF ComposerSubmit
  <2>2. WasDrawn(Intent(composer.mode, composer.to, composer.text))
    <3>1. composer.mode = "send" \/ composer.mode = "reply" \/ composer.mode = "edit"
      BY DEF ComposerInv
    <3>2. composer = [text |-> composer.text, mode |-> composer.mode, to |-> composer.to]
      BY DEF ComposerInv
    <3> QED
      BY <1>1, <3>1, <3>2 DEF WasDrawn, Intent
  <2> QED
    BY <2>1, <2>2, OneSeen
<1>3. CASE PinToggle \/ CopyMessage \/ SaveMedia
  <2>1. \/ \E kind \in {"pin", "copy", "save"} : Hand(Intent(kind, pane.sel, 0))
        \/ Repaint
    BY <1>3 DEF PinToggle, CopyMessage, SaveMedia, Takes, Explain
  <2>2. \A kind \in {"pin", "copy", "save"} : WasDrawn(Intent(kind, pane.sel, 0))
    BY <1>1 DEF WasDrawn, Intent
  <2>3. Repaint => Seen
    BY DEF Repaint, TurnEnds, Seen
  <2> QED
    BY <2>1, <2>2, <2>3, OneSeen
<1>4. CASE SearchSubmit
  <2>1. Hand(Intent(overlay, 0, form.query)) /\ overlay \in {"SearchInput", "ContactSearchInput"}
    BY <1>4 DEF SearchSubmit, In
  <2>2. WasDrawn(Intent(overlay, 0, form.query))
    BY <1>1, <2>1 DEF WasDrawn, Intent
  <2> QED
    BY <2>1, <2>2, OneSeen
<1>5. CASE ConfirmSearchResult
  <2>1. PICK f \in Highlighted("SearchResults") : Hand(Intent("jump", f.hits[f.row], 0))
    BY <1>5 DEF ConfirmSearchResult
  <2>2. PICK row \in Drawn("SearchResults", frame.form) : f = [form EXCEPT !.row = row]
    BY ListDrawn DEF Lists
  <2>3. overlay = "SearchResults"
    BY ChosenFacts DEF Lists
  <2>4. f.hits = form.hits /\ f.row = row
    BY <2>2, <2>3 DEF FormInv, FormOf, IsResults
  <2>5. WasDrawn(Intent("jump", f.hits[f.row], 0))
    BY <1>1, <2>4 DEF WasDrawn, Intent
  <2> QED
    BY <2>1, <2>5, OneSeen
<1>6. CASE ConfirmForward
  <2>1. PICK f \in Highlighted("Forward") : Hand(Intent("forward", f.of, f.row))
    BY <1>6 DEF ConfirmForward
  <2>2. PICK row \in Drawn("Forward", frame.form) : f = [form EXCEPT !.row = row]
    BY ListDrawn DEF Lists
  <2>3. overlay = "Forward"
    BY ChosenFacts DEF Lists
  <2>4. f.of = form.of /\ f.row = row
    BY <2>2, <2>3 DEF FormInv, FormOf
  <2>5. WasDrawn(Intent("forward", f.of, f.row))
    BY <1>1, <2>4 DEF WasDrawn, Intent
  <2> QED
    BY <2>1, <2>5, OneSeen
<1>7. CASE ConfirmReaction
  <2>1. PICK f \in Highlighted("Reaction") :
          TurnEnds(TRUE, {Intent("react", pane.sel, e) : e \in {x \in ConfirmedEmoji(f) : pane.sel # 0}})
    BY <1>7 DEF ConfirmReaction
  <2>2. overlay = "Reaction" /\ \E row : f = [form EXCEPT !.row = row]
    BY ChosenFacts DEF Lists
  <2>3. f.custom = form.custom
    BY <2>2 DEF FormInv, FormOf
  <2>4. ASSUME NEW e \in ConfirmedEmoji(f)
        PROVE  WasDrawn(Intent("react", pane.sel, e))
    <3>1. CASE IsCustom(form)
      <4>1. e = form.custom
        BY <2>3, <2>4, <3>1 DEF ConfirmedEmoji, IsCustom
      <4> QED
        BY <1>1, <3>1, <4>1 DEF WasDrawn, Intent
    <3>2. CASE ~IsCustom(form)
      <4>1. PICK row \in Drawn("Reaction", frame.form) : f = [form EXCEPT !.row = row]
        BY <3>2, ListDrawn DEF Lists
      <4>2. f.row = row
        BY <2>2, <4>1 DEF FormInv, FormOf
      <4>3. e = row
        BY <2>3, <3>2, <4>2 DEF ConfirmedEmoji, IsCustom
      <4> QED
        BY <1>1, <3>2, <4>1, <4>3 DEF WasDrawn, Intent
    <3> QED
      BY <3>1, <3>2
  <2>5. handed' = {Intent("react", pane.sel, e) : e \in {x \in ConfirmedEmoji(f) : pane.sel # 0}}
    BY <2>1 DEF TurnEnds
  <2> QED
    BY <2>4, <2>5 DEF Seen
<1>8. CASE Agree
  <2>1. \/ Hand(Intent("media", form.path, form.caption))
        \/ overlay = "SecretChat" /\ Hand(Intent("secret", form.with, 0))
        \/ overlay = "DeleteConfirm" /\ Hand(Intent("delete", form.of, form.revoke))
    BY <1>8 DEF Agree, In
  <2>2. WasDrawn(Intent("media", form.path, form.caption))
    BY <1>1 DEF WasDrawn, Intent
  <2>3. overlay = "SecretChat" => WasDrawn(Intent("secret", form.with, 0))
    BY <1>1 DEF WasDrawn, Intent
  <2>4. overlay = "DeleteConfirm" => WasDrawn(Intent("delete", form.of, form.revoke))
    BY <1>1 DEF WasDrawn, Intent, FormInv, FormOf
  <2> QED
    BY <2>1, <2>2, <2>3, <2>4, OneSeen
<1> QED
  BY <1>2, <1>3, <1>4, <1>5, <1>6, <1>7, <1>8 DEF Acts

LEMMA SettingsSeen ==
  ASSUME PanesInv, FrameIsFresh, SettingsConfirm
  PROVE  Seen
<1>1. CASE Refused(form) # {}
  BY <1>1 DEF SettingsConfirm, Repaint, TurnEnds, Seen
<1>2. CASE Refused(form) = {}
  <2>1. handed' = SettingsIntents(storage') /\ storage' = Confirmed(form)
    BY <1>2 DEF SettingsConfirm, TurnEnds
  <2>2. \A i \in SettingsIntents(storage') : i.kind \in {"storage", "graphics"} /\ i.by = storage'
    BY DEF SettingsIntents, Intent
  <2>3. frame.form = form
    BY FrameFacts
  <2>4. \A f \in AllFields : ParseField(f, frame.form.says[f]) = {storage'[f]}
    BY <1>2, <2>1, <2>3, ConfirmedFacts
  <2>5. ASSUME NEW i \in SettingsIntents(storage')
        PROVE  WasDrawn(i)
    <3>1. i.by = storage' /\ (i.kind = "storage" \/ i.kind = "graphics")
      BY <2>2
    <3> QED
      BY <2>4, <3>1 DEF WasDrawn
  <2> QED
    BY <2>1, <2>5 DEF Seen
<1> QED
  BY <1>1, <1>2

LEMMA StepSeen ==
  ASSUME AppInv, [AppNext]_turnVars
  PROVE  Seen \/ UNCHANGED turnVars
<1>1. CASE Acts /\ ~quit
  BY <1>1, ActsSeen DEF AppInv
<1>2. CASE SettingsConfirm
  BY <1>2, SettingsSeen DEF AppInv, SettingsConfirm, In, On
<1>3. CASE Reanchor \/ Resize
  BY <1>3 DEF Reanchor, Resize, Seen
<1>4. CASE Ignored \/ Quit
  BY <1>4 DEF Ignored, Quit, Quiet, TurnEnds, Seen
<1> QED
  BY <1>1, <1>2, <1>3, <1>4, AsideSeen, Steps

-----------------------------------------------------------------------------
(* Where keys lead.                                                        *)

\* A pane without width is not in focus.
PlaceInv ==
  /\ overlay \in Overlays /\ focus \in ToSet(Foci) /\ collapsed \in BOOLEAN
  /\ collapsed => focus # "ChatList"

LEMMA OnFacts ==
  ASSUME PlaceInv, NEW a, On(a)
  PROVE  /\ overlay # "None" => a \in OverlayActs
         /\ overlay = "None" => a # "Cancel"
<1>1. CASE <<overlay, focus, a>> \in KeyActions
  <2>1. PICK k \in KeyPresses : a = ActionOf[overlay][focus][k]
    BY <1>1 DEF KeyActions
  <2> QED
    BY <2>1, OverlaysTakeKeys, PanesCancelNothing DEF PlaceInv
<1>2. CASE a \in WheelActions[overlay]
  <2>1. overlay # "None" => WheelActions[overlay] \subseteq {"Next", "Prev", "NextField", "PrevField"}
    BY DEF PlaceInv, WheelActions
  <2>2. overlay = "None" => WheelActions[overlay] = {"SelectNext", "SelectPrev", "ScrollDown", "ScrollUp"}
    BY DEF PlaceInv, WheelActions
  <2>3. {"Next", "Prev", "NextField", "PrevField"} \subseteq OverlayActs
    BY DEF OverlayActs
  <2> QED
    BY <1>2, <2>1, <2>2, <2>3
<1> QED
  BY <1>1, <1>2 DEF On, Wheels

\* What only the panes are asked for.
PanesActs == {"FocusNext", "FocusPrev", "OpenInHistory", "Write", "ToggleChatListCollapse",
  "SelectNext", "SelectPrev", "NextList", "PrevList", "ScrollDown", "ScrollUp", "PageDown", "PageUp",
  "JumpToNewest", "JumpToQuoted", "ComposerNewline", "ComposerSubmit", "ComposerCancel",
  "ReplyMessage", "EditMessage"}

LEMMA PanesOnly ==
  ASSUME PlaceInv, overlay # "None"
  PROVE  \A a \in PanesActs : ~On(a)
<1>1. \A a \in PanesActs : a \notin OverlayActs
  BY DEF PanesActs, OverlayActs
<1> QED
  BY <1>1, OnFacts

\* Nothing done in an overlay changes the draft, or the focus but in closing it.
LEMMA PanesKept ==
  ASSUME PlaceInv, AppNext, overlay # "None"
  PROVE  composer' = composer /\ (focus # focus' => overlay' = "None")
<1> USE PanesOnly
<1>1. CASE Reanchor \/ Resize \/ Render \/ Ignored \/ Reproject \/ Notified \/ NoticeTick
  BY <1>1 DEF Reanchor, Resize, Render, Ignored, Reproject, Notified, NoticeTick, appVars, panes
<1>2. CASE Answered \/ OpenOverlay \/ Cancel \/ EditLine \/ EditSettings \/ NextField
  BY <1>2 DEF Answered, SetResults, OpenOverlay, Opens, Cancel, EditLine, EditSettings, NextField, Edits, Under, panes
<1>3. CASE MoveRow \/ EnterCustom \/ HelpScroll \/ SearchSubmit \/ ConfirmContact \/ ForwardOpen
  BY <1>3 DEF MoveRow, EnterCustom, HelpScroll, SearchSubmit, ConfirmContact, ForwardOpen, Edits, Under, panes
<1>4. CASE ConfirmSearchResult \/ ConfirmForward \/ ConfirmReaction \/ Agree
  BY <1>4 DEF ConfirmSearchResult, ConfirmForward, ConfirmReaction, Agree, Close, Under, panes
<1>5. CASE SettingsConfirm \/ LogoutConfirm \/ PinToggle \/ CopyMessage \/ SaveMedia
  BY <1>5 DEF SettingsConfirm, LogoutConfirm, PinToggle, CopyMessage, SaveMedia, Takes, Explain, appVars, panes
<1>6. CASE Resync \/ NoticeDismiss \/ Quit
  BY <1>6 DEF Resync, NoticeDismiss, Quit, panes
<1>7. ~(CycleFocus \/ SetFocus \/ ToggleChatListCollapse \/ MoveCursor)
  BY DEF CycleFocus, SetFocus, ToggleChatListCollapse, MoveCursor, PanesActs
<1>8. ~(OpenChat \/ SelectMessageAt \/ Scroll \/ JumpToQuoted)
  BY DEF OpenChat, SelectMessageAt, Scroll, JumpToQuoted, PanesActs
<1>9. ~(ComposerInput \/ ComposerBackspace \/ ComposerSubmit \/ ComposerCancel)
  BY DEF ComposerInput, ComposerBackspace, ComposerSubmit, ComposerCancel, In, PanesActs
<1>10. ~(ReplyMessage \/ EditMessage)
  BY DEF ReplyMessage, EditMessage, OnSelected, PanesActs
<1> QED
  BY <1>1, <1>2, <1>3, <1>4, <1>5, <1>6, <1>7, <1>8, <1>9, <1>10 DEF AppNext

\* Each cancelling leads towards the panes.
LEMMA CancelLeads ==
  ASSUME PlaceInv, FormInv, Cancel
  PROVE  Depth' < Depth
<1>1. overlay # "None"
  BY OnFacts DEF Cancel
<1>2. CASE overlay = "Forward" /\ form.back # NoForm
  BY <1>2 DEF Cancel, Open, Depth
<1>3. CASE overlay = "Reaction" /\ IsCustom(form)
  <2>1. overlay' = "Reaction" /\ form' = [form EXCEPT !.custom = "none"]
    BY <1>3 DEF Cancel, Open
  <2>2. form'.custom = "none"
    BY <1>3, <2>1 DEF FormInv, FormOf
  <2>3. ~IsCustom(form')
    BY <2>2 DEF IsCustom
  <2>4. Depth' = 1
    BY <2>1, <2>3 DEF Depth
  <2> QED
    BY <1>3, <2>4 DEF Depth
<1>4. CASE ~(overlay = "Forward" /\ form.back # NoForm) /\ ~(overlay = "Reaction" /\ IsCustom(form))
  BY <1>1, <1>4 DEF Cancel, Close, Depth
<1> QED
  BY <1>2, <1>3, <1>4

LEMMA CycledFacts ==
  ASSUME NEW f \in ToSet(Foci), NEW by \in {1, Len(Foci) - 1}
  PROVE  Cycled(f, by) \in ToSet(Foci) /\ Cycled("ChatList", by) # "ChatList"
<1>1. Len(Foci) = 3 /\ DOMAIN Foci = 1 .. 3 /\ by \in {1, 2}
  BY DEF Foci
<1>2. Position(f) \in 1 .. 3
  BY FociSet DEF Position, Foci
<1>3. Position("ChatList") = 1
  BY DEF Position, Foci
<1>4. \A i \in 1 .. 3 : Foci[i] \in ToSet(Foci)
  BY FociSet DEF Foci
<1>5. ((Position(f) + by - 1) % 3) + 1 \in 1 .. 3
  BY <1>1, <1>2
<1>6. ((1 + by - 1) % 3) + 1 \in 2 .. 3
  BY <1>1
<1>7. \A i \in 2 .. 3 : Foci[i] # "ChatList"
  BY DEF Foci
<1> QED
  BY <1>1, <1>3, <1>4, <1>5, <1>6, <1>7 DEF Cycled

LEMMA PlaceStep ==
  ASSUME PlaceInv, PanesInv, quit \/ FrameIsFresh, AppNext
  PROVE  PlaceInv'
<1>1. ~quit => frame.collapsed = collapsed
  BY FrameFacts
<1>2. \A f : Edits(f) \/ Open(overlay, f) => overlay' = overlay
  BY DEF Edits, Open
<1>3. \A c : Writes(c) => UNCHANGED <<panes, modal>>
  BY DEF Writes
<1>4. \A f : Edits(f) => UNCHANGED panes
  BY DEF Edits, Under
<1> USE DEF PlaceInv
<1>5. CASE Reanchor \/ Resize \/ Render \/ Ignored \/ Reproject \/ Notified \/ NoticeTick
  BY <1>5 DEF Reanchor, Resize, Render, Ignored, Reproject, Notified, NoticeTick, appVars, panes, modal
<1>6. CASE Answered \/ EditLine \/ EditSettings \/ NextField
  <2>1. CASE Answered
    BY <1>2, <1>4, <2>1 DEF Answered, SetResults, Under, panes
  <2>2. CASE EditLine
    BY <1>2, <1>4, <2>2 DEF EditLine, panes
  <2>3. CASE EditSettings
    BY <2>3 DEF EditSettings, Edits, Open, Under, panes
  <2>4. CASE NextField
    BY <2>4 DEF NextField, Edits, Open, Under, panes
  <2> QED
    BY <1>6, <2>1, <2>2, <2>3, <2>4
<1>7. CASE OpenOverlay
  BY <1>7 DEF OpenOverlay, Opens, Open, Under, panes, Overlays
<1>8. CASE Cancel
  BY <1>8 DEF Cancel, Close, Open, Under, panes, Overlays
<1>9. CASE MoveRow \/ EnterCustom \/ HelpScroll \/ SearchSubmit \/ ConfirmContact \/ ForwardOpen
  BY <1>9 DEF MoveRow, EnterCustom, HelpScroll, SearchSubmit, ConfirmContact, ForwardOpen, Edits, Open, Under, panes, Overlays
<1>10. CASE ConfirmSearchResult
  BY <1>10, FociSet DEF ConfirmSearchResult, Close, Overlays
<1>11. CASE ConfirmForward \/ ConfirmReaction \/ Agree
  <2>1. CASE ConfirmForward
    BY <2>1 DEF ConfirmForward, Close, Under, panes, Overlays
  <2>2. CASE ConfirmReaction
    BY <2>2 DEF ConfirmReaction, Close, Under, panes, Overlays
  <2>3. CASE Agree
    BY <2>3 DEF Agree, Close, Under, panes, Overlays
  <2> QED
    BY <1>11, <2>1, <2>2, <2>3
<1>12. CASE SettingsConfirm \/ LogoutConfirm
  <2>1. CASE SettingsConfirm
    BY <2>1 DEF SettingsConfirm, Close, Open, panes, Overlays
  <2>2. CASE LogoutConfirm
    BY <2>2 DEF LogoutConfirm, Close, Open, panes, Overlays
  <2> QED
    BY <1>12, <2>1, <2>2
<1>13. CASE PinToggle \/ CopyMessage \/ SaveMedia \/ Resync \/ NoticeDismiss \/ Quit
  BY <1>13 DEF PinToggle, CopyMessage, SaveMedia, Takes, Explain, Resync, NoticeDismiss, Quit, appVars, panes, modal
<1>14. CASE CycleFocus
  <2>1. PICK by \in {1, Len(Foci) - 1} :
          focus' = LET next == Cycled(focus, by)
                   IN IF collapsed /\ next = "ChatList" THEN Cycled(next, by) ELSE next
    BY <1>14 DEF CycleFocus
  <2>2. focus' \in ToSet(Foci) /\ (collapsed => focus' # "ChatList")
    BY <2>1, CycledFacts, FociSet
  <2> QED
    BY <1>14, <2>2 DEF CycleFocus, Beneath, modal
<1>15. CASE SetFocus
  BY <1>1, <1>15 DEF SetFocus, On, Beneath, modal
<1>16. CASE ToggleChatListCollapse
  BY <1>16, FociSet DEF ToggleChatListCollapse, Beneath, modal
<1>17. CASE MoveCursor \/ OpenChat \/ SelectMessageAt \/ Scroll \/ JumpToQuoted
  <2>1. CASE MoveCursor
    BY <2>1, FociSet DEF MoveCursor, Beneath, modal
  <2>2. CASE OpenChat
    BY <2>2, FociSet DEF OpenChat, Beneath, modal
  <2>3. CASE SelectMessageAt
    BY <2>3, FociSet DEF SelectMessageAt, Beneath, modal
  <2>4. CASE Scroll
    BY <2>4, FociSet DEF Scroll, Beneath, modal
  <2>5. CASE JumpToQuoted
    BY <2>5, FociSet DEF JumpToQuoted, Beneath, modal
  <2> QED
    BY <1>17, <2>1, <2>2, <2>3, <2>4, <2>5
<1>18. CASE ComposerInput \/ ComposerBackspace \/ ComposerSubmit \/ ComposerCancel
  <2>1. CASE ComposerInput
    BY <1>3, <2>1 DEF ComposerInput, panes, modal
  <2>2. CASE ComposerBackspace
    BY <2>2 DEF ComposerBackspace, Writes, panes, modal
  <2>3. CASE ComposerSubmit
    BY <2>3 DEF ComposerSubmit, Writes, panes, modal
  <2>4. CASE ComposerCancel
    BY <2>4 DEF ComposerCancel, Writes, panes, modal
  <2> QED
    BY <1>18, <2>1, <2>2, <2>3, <2>4
<1>19. CASE ReplyMessage \/ EditMessage
  BY <1>19, FociSet DEF ReplyMessage, EditMessage, Explain, panes, modal
<1> QED
  BY <1>5, <1>6, <1>7, <1>8, <1>9, <1>10, <1>11, <1>12, <1>13, <1>14, <1>15, <1>16, <1>17, <1>18, <1>19 DEF AppNext

-----------------------------------------------------------------------------
(* The theorems.                                                           *)
LEMMA Starts == AppInit => AppInv
<1> SUFFICES ASSUME AppInit PROVE AppInv
  OBVIOUS
<1>1. PanesInv
  <2>1. pane \in Panes
    BY DEF AppInit, Panes
  <2> QED
    BY <2>1 DEF AppInit, PanesInv, InList
<1>2. ComposerInv /\ FormInv
  BY DEF AppInit, ComposerInv, Fresh, FormInv, FormOf
<1>3. SettingsInv
  BY DEF AppInit, SettingsInv, Valid
<1> QED
  BY <1>1, <1>2, <1>3 DEF AppInit, AppInv, FrameIsFresh

LEMMA Keeps == AppInv /\ [AppNext]_turnVars => AppInv'
<1> SUFFICES ASSUME AppInv, [AppNext]_turnVars PROVE AppInv'
  OBVIOUS
<1>1. CASE AppNext
  BY <1>1, PanesStep, ComposerStep, FormStep, SettingsStep, FrameStep DEF AppInv
<1>2. CASE UNCHANGED turnVars
  BY <1>2 DEF turnVars, appVars, panes, modal, held, AppInv, PanesInv, ComposerInv, FormInv,
     FormOf, SettingsInv, FrameIsFresh, View
<1> QED
  BY <1>1, <1>2

\* The inductive invariant of App in its loop.
THEOREM ReducerInductive == AppSpec => []AppInv
<1> QED
  BY Starts, Keeps, PTL DEF AppSpec

\* No visible change goes undrawn, and what the drives are handed is what was on screen.
THEOREM ActsOnScreenHolds == AppSpec => ActsOnScreen
<1>1. AppInv => (quit \/ FrameIsFresh)
  BY DEF AppInv
<1>2. AppInv /\ [AppNext]_turnVars => [\A i \in handed' : WasDrawn(i)]_turnVars
  BY StepSeen DEF Seen
<1> QED
  BY <1>1, <1>2, ReducerInductive, PTL DEF ActsOnScreen, AppSpec

\* What the form sets is what its lines say, and it sets nothing that was not edited.
LEMMA PolicyStep ==
  ASSUME AppInv, [AppNext]_turnVars, storage' # storage
  PROVE  /\ overlay = "Settings" /\ form.says # FromSettings(storage).says
         /\ \A f \in AllFields : storage'[f] \in ParseField(f, form.says[f])
<1>1. AppNext
  BY DEF turnVars, appVars, held
<1>2. SettingsConfirm
  BY <1>1, Steps DEF Reanchor, Resize, Ignored, Quit, appVars, held
<1>3. Refused(form) = {} /\ storage' = Confirmed(form)
  BY <1>2 DEF SettingsConfirm
<1>4. \A f \in AllFields : ParseField(f, form.says[f]) = {storage'[f]}
  BY <1>3, ConfirmedFacts
<1>5. ASSUME form.says = FromSettings(storage).says
      PROVE  FALSE
  <2>1. \A f \in AllFields : form.says[f] = DisplayField(f, storage[f])
    BY <1>5 DEF FromSettings
  <2>2. \A f \in AllFields : storage'[f] = storage[f]
    BY <1>4, <2>1, DisplayParses DEF AppInv, SettingsInv
  <2>3. storage' = [f \in AllFields |-> storage'[f]] /\ storage = [f \in AllFields |-> storage[f]]
    BY <1>3, ConfirmedFacts DEF AppInv, SettingsInv
  <2> QED
    BY <2>2, <2>3
<1> QED
  BY <1>2, <1>4, <1>5 DEF SettingsConfirm, In

\* The settings shown, in effect and read from the form are the same.
THEOREM SettingsAgreeHolds == AppSpec => SettingsAgree
<1>1. AppInv => DisplaysParse /\ live = storage
  BY DisplaysDo DEF AppInv, SettingsInv
<1>2. AppInv => (overlay = "Settings" /\ form.error
                 => ParseField(Fields[form.at], form.says[Fields[form.at]]) = {})
  BY DEF AppInv, FormInv, FormOf
<1>3. AppInv /\ [AppNext]_turnVars =>
        [storage' # storage =>
           /\ overlay = "Settings" /\ form.says # FromSettings(storage).says
           /\ \A f \in AllFields : storage'[f] \in ParseField(f, form.says[f])]_turnVars
  BY PolicyStep
<1> QED
  BY <1>1, <1>2, <1>3, ReducerInductive, PTL DEF SettingsAgree, AppSpec

\* A key means one thing in one place, and each way out of an overlay leads to the panes.
THEOREM KeysKeepTheirPlaceHolds == AppSpec => KeysKeepTheirPlace
<1> DEFINE Kept == /\ Cancel => Depth' < Depth
                   /\ overlay # "None" => composer' = composer /\ (focus # focus' => overlay' = "None")
<1>1. AppInit => PlaceInv
  BY FociSet DEF AppInit, PlaceInv, Overlays
<1>2. AppInv /\ PlaceInv /\ [AppNext]_turnVars => PlaceInv'
  <2>1. UNCHANGED turnVars /\ PlaceInv => PlaceInv'
    BY DEF turnVars, appVars, panes, modal, PlaceInv
  <2> QED
    BY <2>1, PlaceStep DEF AppInv
<1>3. AppInv /\ PlaceInv /\ [AppNext]_turnVars => [Kept]_turnVars
  BY PanesKept, CancelLeads DEF AppInv
<1>4. PlaceInv => KeymapIsSound /\ (collapsed => focus # "ChatList")
  BY KeymapSound DEF PlaceInv
<1>5. AppSpec => []PlaceInv
  BY <1>1, <1>2, ReducerInductive, PTL DEF AppSpec
<1> QED
  BY <1>3, <1>4, <1>5, ReducerInductive, PTL DEF AppSpec, KeysKeepTheirPlace

-----------------------------------------------------------------------------
(* Files and pictures (Transfers).                                         *)

USE ChatsAssumption, PoliciesAssumption, MessagesAssumption, BoundsAssumption

\* TypeOK in two: what a turn of the loop assigns, and the rest.
LoopType ==
  /\ open \in Chats \cup {NoChat} /\ graphics \in BOOLEAN
  /\ downloading \subseteq Files /\ avatarEncoding \subseteq Users /\ mediaEncoding \subseteq Ids
  /\ avatars \subseteq Users /\ pictures \in [Ids -> Messages \cup {NoPicture}]
  /\ calls \in [Files -> Nat] /\ jobs \subseteq Jobs /\ asked \in [Files -> Nat]

RestType ==
  /\ local \in [Files -> Copies]
  /\ feed \in Seq([file : Files, copy : Copies]) /\ Len(feed) <= Capacity
  /\ known \in [Files -> Copies \cup {"unknown"}]
  /\ history \subseteq Messages /\ people \subseteq Users /\ listed \subseteq Chats
  /\ policy \in Policies /\ sweeps \subseteq Sweeps
  /\ failures \in 0 .. MaxFailures /\ choices \in 0 .. MaxChoices
  /\ lost \subseteq Files /\ unlucky \subseteq Files

\* A file was asked for, in one pass, exactly if it is remembered.
AskedInv == \A f \in Files : asked[f] = IF f \in downloading THEN 1 ELSE 0

\* The encodings under way or reported are those marked, one each.
JobInv ==
  /\ Keys(jobs, "avatar") = avatarEncoding
  /\ Keys(jobs, "media") = mediaEncoding
  /\ \A i, j \in jobs : i.kind = j.kind /\ i.key = j.key => i = j

\* The updates of a file in a feed, and whether k is the last.
About(q, f) == {k \in 1 .. Len(q) : q[k].file = f}
LastAbout(q, f, k) == k \in About(q, f) /\ \A n \in About(q, f) : n <= k

\* The last update of a file on its way has its state; with none on its way or lost,
\* the store has it.
StoreInv ==
  \A f \in Files :
    /\ \A k \in 1 .. Len(feed) : LastAbout(feed, f, k) => feed[k].copy = local[f]
    /\ f \notin lost /\ About(feed, f) = {} => known[f] \in {local[f], "unknown"}

IInv == LoopType /\ RestType /\ AskedInv /\ JobInv /\ StoreInv /\ SweepSparesKept

-----------------------------------------------------------------------------
\* Sets and jobs.

\* How drive_downloads and drive_save count a file among others.
LEMMA OneOrNone ==
  ASSUME NEW S, NEW f
  PROVE  Cardinality({f} \cap S) = IF f \in S THEN 1 ELSE 0
<1>1. CASE f \in S
  <2>1. {f} \cap S = {f}
    BY <1>1
  <2> QED
    BY <1>1, <2>1, FS_Singleton
<1>2. CASE f \notin S
  <2>1. {f} \cap S = {}
    BY <1>2
  <2> QED
    BY <1>2, <2>1, FS_EmptySet
<1> QED
  BY <1>1, <1>2

\* There are finitely many message ids.
LEMMA IdsFinite == IsFiniteSet(Ids)
<1> DEFINE idOf == [m \in Messages |-> m.id]
<1>1. idOf \in Surjection(Messages, Ids)
  BY DEF Surjection, Ids
<1> QED
  BY <1>1, FS_Surjection, FinitenessAssumption

\* The fields of an encoding.
LEMMA JobFacts ==
  ASSUME NEW j \in Jobs
  PROVE  \/ j.kind = "avatar" /\ j.key \in Users /\ j.of = NoPicture
         \/ j.kind = "media" /\ j.key \in Ids /\ j.of \in Messages
BY DEF Jobs

\* An encoding that has ended is the same encoding.
LEMMA EndedFacts ==
  ASSUME NEW j \in Jobs, NEW out \in {"busy", "built", "failed"}
  PROVE  /\ [j EXCEPT !.out = out] \in Jobs
         /\ [j EXCEPT !.out = out].kind = j.kind /\ [j EXCEPT !.out = out].key = j.key
BY DEF Jobs

\* A message's id is an id, and its still's encoding is kept under it.
LEMMA StillFacts ==
  /\ \A m \in Messages : m.id \in Ids /\ Still(m) \in Jobs
       /\ Still(m).kind = "media" /\ Still(m).key = m.id
  /\ \A u \in Users : Avatar(u) \in Jobs /\ Avatar(u).kind = "avatar" /\ Avatar(u).key = u
BY DEF Ids, Still, Avatar, Jobs

-----------------------------------------------------------------------------
\* The loop's turn.

\* What a turn downloads, encodes and caches is of the right kind.
LEMMA WantedFacts ==
  ASSUME LoopType, RestType, NEW o, NEW cached, NEW encoding, NEW stills
  PROVE  /\ ToDownload(o) \subseteq Messages
         /\ ToBubble(o, cached, encoding) \subseteq Users
         /\ ToPicture(o, stills, encoding) \subseteq Messages
         /\ \A m, n \in ToPicture(o, stills, encoding) : m.id = n.id => m = n
<1>1. Shown(o) \subseteq Messages /\ \A m \in Shown(o) : m.chat = o
  BY DEF Shown, RestType
<1>2. ToDownload(o) \subseteq Messages
  BY <1>1 DEF ToDownload
<1>3. ToBubble(o, cached, encoding) \subseteq Users
  BY DEF ToBubble, RestType
<1>4. ToPicture(o, stills, encoding) \subseteq Shown(o)
  BY DEF ToPicture
<1> QED
  BY <1>1, <1>2, <1>3, <1>4

\* The pictures built are of messages.
LEMMA BuiltFacts ==
  ASSUME LoopType, NEW reports \in SUBSET jobs
  PROVE  BuiltPictures(reports) \in [Ids -> Messages \cup {NoPicture}]
<1> SUFFICES ASSUME NEW i \in Ids
             PROVE  BuiltPictures(reports)[i] \in Messages \cup {NoPicture}
  BY DEF BuiltPictures
<1> DEFINE own == {j \in Built(reports) : j.kind = "media" /\ j.key = i}
<1>1. BuiltPictures(reports)[i] = IF own = {} THEN pictures[i] ELSE (CHOOSE j \in own : TRUE).of
  BY DEF BuiltPictures
<1>2. \A j \in own : j.of \in Messages
  BY JobFacts DEF Built, LoopType
<1>3. own # {} => (CHOOSE j \in own : TRUE) \in own
  OBVIOUS
<1> HIDE DEF own
<1>4. pictures[i] \in Messages \cup {NoPicture}
  BY DEF LoopType
<1> QED
  BY <1>1, <1>2, <1>3, <1>4

\* A turn keeps the types, asks for no file that was asked for, and marks what it encodes (the drives
\* of lib.rs, after an arm that took some reports).
LEMMA TurnInv ==
  ASSUME LoopType, RestType, AskedInv, JobInv,
         NEW o \in Chats \cup {NoChat}, NEW g \in BOOLEAN, NEW reports \in SUBSET jobs,
         NEW saving, Turn(o, g, reports, saving)
  PROVE  LoopType' /\ AskedInv' /\ JobInv'
<1> DEFINE cached == avatars \cup Keys(Built(reports), "avatar")
           stills == BuiltPictures(reports)
           bubbling == avatarEncoding \ Keys(reports, "avatar")
           picturing == mediaEncoding \ Keys(reports, "media")
           starts == ToDownload(o)
           files == {m.file : m \in starts}
           bubbles == IF g THEN ToBubble(o, cached, bubbling) ELSE {}
           images == IF g THEN ToPicture(o, stills, picturing) ELSE {}
           rest == jobs \ reports
           fresh == {Avatar(u) : u \in bubbles}
           drawn == {Still(m) : m \in images}
<1>1. /\ open' = o /\ graphics' = g
      /\ downloading' = downloading \cup files
      /\ avatars' = cached /\ pictures' = stills
      /\ avatarEncoding' = bubbling \cup bubbles
      /\ mediaEncoding' = picturing \cup {m.id : m \in images}
      /\ jobs' = rest \cup fresh \cup drawn
      /\ calls' = [f \in Files |-> calls[f] + Cardinality({m \in starts : m.file = f})
                                            + Cardinality({f} \cap ToSave(saving))]
      /\ asked' = [f \in Files |-> asked[f] + Cardinality({f} \cap files)]
  BY DEF Turn
<1>2. /\ starts \subseteq Messages /\ files \subseteq Files /\ files \cap downloading = {}
      /\ bubbles \subseteq Users /\ bubbles \cap bubbling = {}
      /\ images \subseteq Messages /\ \A m \in images : m.id \in Ids /\ m.id \notin picturing
      /\ \A m, n \in images : m.id = n.id => m = n
  <2>1. files \cap downloading = {}
    BY DEF ToDownload
  <2>2. bubbles \cap bubbling = {}
    BY DEF ToBubble
  <2>3. \A m \in images : m.id \notin picturing
    BY DEF ToPicture
  <2>4. starts \subseteq Messages /\ bubbles \subseteq Users
    <3> HIDE DEF cached, bubbling
    <3> QED
      BY WantedFacts
  <2>5. images \subseteq Messages /\ \A m, n \in images : m.id = n.id => m = n
    <3> HIDE DEF stills, picturing
    <3> QED
      BY WantedFacts
  <2> HIDE DEF starts
  <2>6. files \subseteq Files
    BY <2>4
  <2> HIDE DEF files, bubbles, images
  <2> QED
    BY <2>1, <2>2, <2>3, <2>4, <2>5, <2>6, StillFacts
<1>3. Keys(Built(reports), "avatar") \subseteq Users
  BY JobFacts DEF Keys, Built, LoopType
<1>4. stills \in [Ids -> Messages \cup {NoPicture}]
  BY BuiltFacts
<1> HIDE DEF starts, files, bubbles, images
<1>5. /\ \A j \in fresh : j \in Jobs /\ j.kind = "avatar" /\ j.key \in bubbles
      /\ \A u \in bubbles : Avatar(u) \in fresh
  <2>1. ASSUME NEW j \in fresh
        PROVE  j \in Jobs /\ j.kind = "avatar" /\ j.key \in bubbles
    <3>1. PICK u \in bubbles : j = Avatar(u)
      OBVIOUS
    <3>2. u \in Users
      BY <1>2
    <3> QED
      BY <3>1, <3>2, StillFacts
  <2> QED
    BY <2>1
<1>6. /\ \A j \in drawn : j \in Jobs /\ j.kind = "media" /\ j.key \in {m.id : m \in images}
      /\ \A m \in images : Still(m) \in drawn
  BY <1>2, StillFacts
<1>7. \A i, j \in fresh : i.key = j.key => i = j
  BY <1>2, StillFacts
<1>8. \A i, j \in drawn : i.key = j.key => i = j
  BY <1>2, StillFacts
<1>9. /\ \A j \in rest : j \in jobs /\ j \in Jobs
      /\ \A j \in rest : j.kind = "avatar" => j.key \in bubbling
      /\ \A j \in rest : j.kind = "media" => j.key \in picturing
  BY DEF JobInv, Keys, LoopType
<1>10. /\ \A u \in bubbling : \E j \in rest : j.kind = "avatar" /\ j.key = u
       /\ \A i \in picturing : \E j \in rest : j.kind = "media" /\ j.key = i
  BY DEF JobInv, Keys
<1>11. LoopType'
  <2>1. avatars' \subseteq Users /\ avatarEncoding' \subseteq Users /\ mediaEncoding' \subseteq Ids
    BY <1>1, <1>2, <1>3 DEF LoopType
  <2>2. jobs' \subseteq Jobs
    BY <1>1, <1>5, <1>6, <1>9
  <2>3. calls' \in [Files -> Nat] /\ asked' \in [Files -> Nat]
    <3> DEFINE own(f) == {m \in starts : m.file = f}
               c(f) == Cardinality(own(f))
               n(f) == Cardinality({f} \cap files)
               k(f) == Cardinality({f} \cap ToSave(saving))
    <3>1. \A f \in Files : n(f) \in Nat /\ k(f) \in Nat
      BY OneOrNone
    <3>2. ASSUME NEW f \in Files
          PROVE  c(f) \in Nat
      <4>1. own(f) \subseteq Messages
        BY <1>2
      <4> HIDE DEF own
      <4> QED
        BY <4>1, FinitenessAssumption, FS_Subset, FS_CardinalityType
    <3>3. calls' = [f \in Files |-> calls[f] + c(f) + k(f)] /\ asked' = [f \in Files |-> asked[f] + n(f)]
      BY <1>1
    <3> HIDE DEF own, c, n, k
    <3> QED
      BY <3>1, <3>2, <3>3 DEF LoopType
  <2> QED
    BY <1>1, <1>2, <1>4, <2>1, <2>2, <2>3 DEF LoopType
<1>12. AskedInv'
  <2>1. ASSUME NEW f \in Files
        PROVE  asked'[f] = IF f \in downloading' THEN 1 ELSE 0
    <3>1. asked'[f] = asked[f] + IF f \in files THEN 1 ELSE 0
      BY <1>1, OneOrNone
    <3>2. asked[f] = IF f \in downloading THEN 1 ELSE 0
      BY DEF AskedInv
    <3> QED
      BY <1>1, <1>2, <3>1, <3>2
  <2> QED
    BY <2>1 DEF AskedInv
<1>13. JobInv'
  <2> HIDE DEF rest, fresh, drawn, bubbling, picturing
  <2>1. Keys(jobs', "avatar") = avatarEncoding'
    <3>1. ASSUME NEW j \in jobs', j.kind = "avatar"
          PROVE  j.key \in avatarEncoding'
      BY <1>1, <1>5, <1>6, <1>9, <3>1
    <3>2. ASSUME NEW u \in avatarEncoding'
          PROVE  \E j \in jobs' : j.kind = "avatar" /\ j.key = u
      BY <1>1, <1>2, <1>5, <1>10, StillFacts
    <3> QED
      BY <3>1, <3>2 DEF Keys
  <2>2. Keys(jobs', "media") = mediaEncoding'
    <3>1. ASSUME NEW j \in jobs', j.kind = "media"
          PROVE  j.key \in mediaEncoding'
      BY <1>1, <1>5, <1>6, <1>9, <3>1
    <3>2. ASSUME NEW i \in mediaEncoding'
          PROVE  \E j \in jobs' : j.kind = "media" /\ j.key = i
      BY <1>1, <1>2, <1>6, <1>10, StillFacts
    <3> QED
      BY <3>1, <3>2 DEF Keys
  <2>3. ASSUME NEW i \in jobs', NEW j \in jobs', i.kind = j.kind, i.key = j.key
        PROVE  i = j
    <3>1. CASE i \in rest /\ j \in rest
      BY <1>9, <2>3, <3>1 DEF JobInv
    <3>2. CASE i \in fresh /\ j \in fresh
      BY <1>7, <2>3, <3>2
    <3>3. CASE i \in drawn /\ j \in drawn
      BY <1>8, <2>3, <3>3
    <3>4. ~(i \in rest /\ j \in fresh) /\ ~(i \in fresh /\ j \in rest)
      BY <1>2, <1>5, <1>9, <2>3
    <3>5. ~(i \in rest /\ j \in drawn) /\ ~(i \in drawn /\ j \in rest)
      BY <1>2, <1>6, <1>9, <2>3
    <3>6. ~(i \in fresh /\ j \in drawn) /\ ~(i \in drawn /\ j \in fresh)
      BY <1>5, <1>6, <2>3
    <3> QED
      BY <1>1, <3>1, <3>2, <3>3, <3>4, <3>5, <3>6
  <2> QED
    BY <2>1, <2>2, <2>3 DEF JobInv
<1> QED
  BY <1>11, <1>12, <1>13

\* An encoding that ends stays the one at its key.
LEMMA EncodeInv ==
  ASSUME LoopType, AskedInv, JobInv, NEW j \in jobs, Encode(j)
  PROVE  LoopType' /\ AskedInv' /\ JobInv'
<1>1. PICK out \in {"built", "failed"} : jobs' = (jobs \ {j}) \cup {[j EXCEPT !.out = out]}
  BY DEF Encode
<1>2. UNCHANGED <<viewVars, markVars, cacheVars, calls, asked>>
  BY DEF Encode, ghosts
<1> DEFINE done == [j EXCEPT !.out = out]
<1>3. done \in Jobs /\ done.kind = j.kind /\ done.key = j.key
  BY EndedFacts DEF LoopType
<1> HIDE DEF done
<1>4. jobs' = (jobs \ {j}) \cup {done}
  BY <1>1 DEF done
<1>5. LoopType'
  BY <1>2, <1>3, <1>4 DEF LoopType, viewVars, markVars, cacheVars
<1>6. AskedInv'
  BY <1>2 DEF AskedInv, markVars
<1>7. ASSUME NEW kind
      PROVE  Keys(jobs', kind) = Keys(jobs, kind)
  <2>1. \A i \in jobs' : i.kind = kind => \E k \in jobs : k.kind = kind /\ k.key = i.key
    BY <1>3, <1>4
  <2>2. \A i \in jobs : i.kind = kind => \E k \in jobs' : k.kind = kind /\ k.key = i.key
    BY <1>3, <1>4
  <2> QED
    BY <2>1, <2>2 DEF Keys
<1>8. \A i, k \in jobs' : i.kind = k.kind /\ i.key = k.key => i = k
  BY <1>3, <1>4 DEF JobInv
<1> QED
  BY <1>2, <1>5, <1>6, <1>7, <1>8 DEF JobInv, markVars

\* What a step does to the loop: a turn, the end of an encoding, an answer, or nothing.
LEMMA LoopFrame ==
  ASSUME LoopType, RestType, [Next]_vars
  PROVE  \/ \E o \in Chats \cup {NoChat}, g \in BOOLEAN, reports \in SUBSET jobs :
              \E saving : Turn(o, g, reports, saving)
         \/ \E j \in jobs : Encode(j)
         \/ \E f \in Files : Answer(f)
         \/ UNCHANGED <<viewVars, markVars, cacheVars, calls, jobs, asked>>
<1> DEFINE turn == \E o \in Chats \cup {NoChat}, g \in BOOLEAN, reports \in SUBSET jobs :
                     \E saving : Turn(o, g, reports, saving)
           quiet == UNCHANGED <<viewVars, markVars, cacheVars, calls, jobs, asked>>
<1>1. /\ open \in Chats \cup {NoChat} /\ {} \in SUBSET jobs
      /\ \A j \in jobs : {j} \in SUBSET jobs
      /\ graphics \in BOOLEAN /\ (~graphics) \in BOOLEAN
  <2>1. open \in Chats \cup {NoChat} /\ {} \in SUBSET jobs /\ \A j \in jobs : {j} \in SUBSET jobs
    BY DEF LoopType
  <2>2. graphics \in BOOLEAN /\ (~graphics) \in BOOLEAN
    BY Zenon DEF LoopType
  <2> QED
    BY <2>1, <2>2
<1>2. ASSUME NEW o \in Chats \cup {NoChat}, NEW g \in BOOLEAN, NEW reports \in SUBSET jobs,
             NEW saving, Turn(o, g, reports, saving)
      PROVE  turn
  BY <1>2
<1> HIDE DEF turn
<1>3. (\E m \in Messages : Save(m)) \/ Tick \/ (\E o \in Chats \cup {NoChat} : MoveTo(o)) => turn
  BY <1>1, <1>2 DEF Save, Tick, MoveTo
<1>4. (\E j \in jobs : TakeReport(j)) \/ ToggleGraphics \/ EditPolicy \/ SweepTick => turn
  BY <1>1, <1>2 DEF TakeReport, ToggleGraphics, EditPolicy, SweepTick
<1>5. Fold \/ (\E m \in Messages : Learn(m)) => quiet
  BY DEF Fold, Learn, ghosts
<1>6. (\E f \in Files : Transferred(f))
        \/ (\E s \in sweeps : SweepEnds(s) \/ \E f \in Files : SweepDeletes(s, f)) => quiet
  BY DEF Transferred, SweepEnds, SweepDeletes, ghosts
<1>7. UNCHANGED vars => quiet
  BY DEF vars, ghosts
<1> QED
  BY <1>3, <1>4, <1>5, <1>6, <1>7 DEF Next, turn

\* Every step keeps the loop's types and what it remembers.
LEMMA LoopStep ==
  ASSUME LoopType, RestType, AskedInv, JobInv, [Next]_vars
  PROVE  LoopType' /\ AskedInv' /\ JobInv'
<1>1. CASE \E o \in Chats \cup {NoChat}, g \in BOOLEAN, reports \in SUBSET jobs :
             \E saving : Turn(o, g, reports, saving)
  BY <1>1, TurnInv
<1>2. CASE \E j \in jobs : Encode(j)
  BY <1>2, EncodeInv
<1>3. CASE \E f \in Files : Answer(f)
  <2>1. PICK f \in Files : Answer(f)
    BY <1>3
  <2>2. calls[f] \in Nat /\ calls[f] > 0 /\ calls' = [calls EXCEPT ![f] = @ - 1]
        /\ UNCHANGED <<viewVars, markVars, cacheVars, jobs>>
    BY <2>1 DEF Answer, LoopType
  <2>3. asked' = asked
    BY <2>1 DEF Answer, Copied, Send, ghosts
  <2>4. calls' \in [Files -> Nat]
    BY <2>2 DEF LoopType
  <2> QED
    BY <2>2, <2>3, <2>4 DEF LoopType, AskedInv, JobInv, viewVars, markVars, cacheVars
<1>4. CASE UNCHANGED <<viewVars, markVars, cacheVars, calls, jobs, asked>>
  BY <1>4 DEF LoopType, AskedInv, JobInv, viewVars, markVars, cacheVars
<1> QED
  BY <1>1, <1>2, <1>3, <1>4, LoopFrame

-----------------------------------------------------------------------------
\* The files.

\* An update sent, of a file's state.
SentFor(f, copy) == /\ f \in Files /\ copy \in Copies
                    /\ local' = [local EXCEPT ![f] = copy]
                    /\ Send(f, copy)
                    /\ known' = known

\* Every step sends an update of a file's state, folds one, or leaves the files alone.
LEMMA FileFrame ==
  ASSUME RestType, [Next]_vars
  PROVE  \/ \E f \in Files, copy \in Copies : SentFor(f, copy)
         \/ Fold
         \/ UNCHANGED <<local, feed, known, lost>>
<1> DEFINE sent == \E f \in Files, copy \in Copies : SentFor(f, copy)
           quiet == UNCHANGED <<local, feed, known, lost>>
<1>1. ASSUME NEW f \in Files, NEW copy \in Copies, Copied(f, copy), known' = known
      PROVE  sent
  BY <1>1 DEF Copied, SentFor
<1>2. ASSUME NEW f \in Files, local[f] = "present", Send(f, "present"), UNCHANGED <<local, known>>
      PROVE  sent
  <2>1. local' = [local EXCEPT ![f] = "present"]
    BY <1>2 DEF RestType
  <2> QED
    BY <1>2, <2>1 DEF SentFor, Copies
<1> HIDE DEF sent
<1>3. "active" \in Copies /\ "present" \in Copies /\ "absent" \in Copies
  BY DEF Copies
<1>4. ASSUME NEW f \in Files, Answer(f)
      PROVE  sent \/ quiet
  BY <1>1, <1>2, <1>3, <1>4 DEF Answer, storeVars, tdlibVars, ghosts
<1>5. ASSUME NEW f \in Files, Transferred(f) \/ \E s \in sweeps : SweepDeletes(s, f)
      PROVE  sent
  BY <1>1, <1>3, <1>5 DEF Transferred, SweepDeletes, storeVars
<1>6. \A o, g, reports, saving : Turn(o, g, reports, saving) => quiet
  BY DEF Turn, tdlibVars, storeVars
<1>7. (\E m \in Messages : Save(m)) \/ Tick \/ (\E o \in Chats \cup {NoChat} : MoveTo(o)) => quiet
  BY <1>6 DEF Save, Tick, MoveTo
<1>8. (\E j \in jobs : TakeReport(j)) \/ ToggleGraphics \/ EditPolicy \/ SweepTick => quiet
  BY <1>6 DEF TakeReport, ToggleGraphics, EditPolicy, SweepTick
<1>9. (\E m \in Messages : Learn(m)) \/ (\E j \in jobs : Encode(j)) \/ (\E s \in sweeps : SweepEnds(s))
        \/ UNCHANGED vars => quiet
  BY DEF Learn, Encode, SweepEnds, tdlibVars, storeVars, ghosts, vars
<1> QED
  BY <1>4, <1>5, <1>7, <1>8, <1>9 DEF Next, sent

\* The oldest of a feed, and what is left when it is taken.
LEMMA TakenFacts ==
  ASSUME NEW S, NEW q \in Seq(S), q # << >>
  PROVE  /\ Len(q) \in Nat \ {0} /\ Head(q) \in S /\ Head(q) = q[1]
         /\ Tail(q) \in Seq(S) /\ Len(Tail(q)) = Len(q) - 1
         /\ \A k \in 1 .. Len(Tail(q)) : Tail(q)[k] = q[k + 1]
OBVIOUS

\* What is in the feed after an update is sent (the broadcast channel, full or not).
LEMMA SendFacts ==
  ASSUME RestType, NEW f \in Files, NEW copy \in Copies, Send(f, copy)
  PROVE  \E drop \in {0, 1} :
           /\ feed' \in Seq([file : Files, copy : Copies])
           /\ Len(feed') = Len(feed) + 1 - drop /\ Len(feed') \in 1 .. Capacity
           /\ \A k \in 1 .. Len(feed') :
                feed'[k] = IF k = Len(feed') THEN [file |-> f, copy |-> copy] ELSE feed[k + drop]
           /\ lost' \subseteq Files /\ f \notin lost'
           /\ drop = 0 => lost' = lost \ {f}
           /\ drop = 1 => \A g \in Files \ {f} :
                g \in lost' <=> /\ g \in lost \/ g = feed[1].file
                                /\ \A k \in 2 .. Len(feed) : feed[k].file # g
<1> DEFINE u == [file |-> f, copy |-> copy]
           rest == IF Len(feed) = Capacity THEN Tail(feed) ELSE feed
           drop == IF Len(feed) = Capacity THEN 1 ELSE 0
<1>1. feed \in Seq([file : Files, copy : Copies]) /\ Len(feed) <= Capacity /\ Len(feed) \in Nat
      /\ Capacity \in Nat \ {0} /\ u \in [file : Files, copy : Copies]
  BY DEF RestType
<1>2. /\ feed' = Append(rest, u)
      /\ lost' = IF Len(feed) < Capacity THEN lost \ {f}
                 ELSE (lost \cup {Head(feed).file}) \ ({f} \cup {rest[k].file : k \in 1 .. Len(rest)})
  BY DEF Send
<1>3. /\ rest \in Seq([file : Files, copy : Copies]) /\ Len(rest) = Len(feed) - drop
      /\ \A k \in 1 .. Len(rest) : rest[k] = feed[k + drop]
  BY <1>1
<1>4. /\ feed' \in Seq([file : Files, copy : Copies])
      /\ Len(feed') = Len(feed) + 1 - drop /\ Len(feed') \in 1 .. Capacity
      /\ \A k \in 1 .. Len(feed') : feed'[k] = IF k = Len(feed') THEN u ELSE feed[k + drop]
  <2> HIDE DEF rest, u
  <2>1. /\ Len(feed') = Len(rest) + 1 /\ feed' \in Seq([file : Files, copy : Copies])
        /\ \A k \in 1 .. Len(feed') : feed'[k] = IF k = Len(feed') THEN u ELSE rest[k]
    BY <1>1, <1>2, <1>3
  <2> QED
    BY <1>1, <1>3, <2>1
<1>5. lost' \subseteq Files /\ f \notin lost'
  <2> HIDE DEF rest
  <2>1. feed # << >> => Head(feed).file \in Files
    <3>1. feed # << >> => Head(feed) \in [file : Files, copy : Copies]
      BY <1>1, TakenFacts
    <3> QED
      BY <3>1
  <2>2. ~(Len(feed) < Capacity) => feed # << >>
    BY <1>1
  <2> QED
    BY <1>2, <2>1, <2>2 DEF RestType
<1>6. drop = 0 => lost' = lost \ {f}
  BY <1>1, <1>2
<1>7. CASE drop = 1
  <2>1. /\ Len(feed) = Capacity /\ feed # << >> /\ rest = Tail(feed) /\ Head(feed) = feed[1]
        /\ Len(rest) = Len(feed) - 1
    BY <1>1, <1>3, <1>7
  <2>2. \A g : (\E k \in 1 .. Len(rest) : rest[k].file = g)
                 <=> \E k \in 2 .. Len(feed) : feed[k].file = g
    <3>1. \A k \in 1 .. Len(rest) : k + 1 \in 2 .. Len(feed) /\ rest[k] = feed[k + 1]
      BY <1>1, <1>3, <1>7, <2>1
    <3>2. \A k \in 2 .. Len(feed) : k - 1 \in 1 .. Len(rest) /\ rest[k - 1] = feed[k]
      BY <1>1, <1>3, <1>7, <2>1
    <3> HIDE DEF rest
    <3>3. \A k \in 1 .. Len(rest) : \E n \in 2 .. Len(feed) : rest[k].file = feed[n].file
      BY <3>1
    <3>4. \A n \in 2 .. Len(feed) : \E k \in 1 .. Len(rest) : rest[k].file = feed[n].file
      BY <3>2
    <3> QED
      BY <3>3, <3>4
  <2> HIDE DEF rest
  <2>3. lost' = (lost \cup {feed[1].file}) \ ({f} \cup {rest[k].file : k \in 1 .. Len(rest)})
    <3>1. ~(Len(feed) < Capacity)
      BY <1>1, <2>1
    <3> QED
      BY <1>2, <2>1, <3>1
  <2>4. \A g \in Files \ {f} :
          g \in lost' <=> /\ g \in lost \/ g = feed[1].file
                          /\ ~ \E k \in 1 .. Len(rest) : rest[k].file = g
    BY <2>3
  <2>5. \A g \in Files \ {f} :
          g \in lost' <=> /\ g \in lost \/ g = feed[1].file
                          /\ \A k \in 2 .. Len(feed) : feed[k].file # g
    BY <2>2, <2>4
  <2> QED
    BY <1>4, <1>5, <1>7, <2>5
<1>8. CASE drop = 0
  BY <1>4, <1>5, <1>6, <1>8
<1> QED
  BY <1>7, <1>8

\* Sending keeps StoreInv: what falls out of the full feed is lost.
LEMMA SentInv ==
  ASSUME RestType, StoreInv, NEW f \in Files, NEW copy \in Copies, SentFor(f, copy)
  PROVE  StoreInv'
<1>1. PICK drop \in {0, 1} :
        /\ feed' \in Seq([file : Files, copy : Copies])
        /\ Len(feed') = Len(feed) + 1 - drop /\ Len(feed') \in 1 .. Capacity
        /\ \A k \in 1 .. Len(feed') :
             feed'[k] = IF k = Len(feed') THEN [file |-> f, copy |-> copy] ELSE feed[k + drop]
        /\ lost' \subseteq Files /\ f \notin lost'
        /\ drop = 0 => lost' = lost \ {f}
        /\ drop = 1 => \A g \in Files \ {f} :
             g \in lost' <=> /\ g \in lost \/ g = feed[1].file
                             /\ \A k \in 2 .. Len(feed) : feed[k].file # g
  BY SendFacts DEF SentFor
<1>2. /\ local' = [local EXCEPT ![f] = copy] /\ known' = known
      /\ local \in [Files -> Copies] /\ Len(feed) \in Nat /\ Len(feed') \in Nat
      /\ feed \in Seq([file : Files, copy : Copies])
  BY <1>1 DEF SentFor, RestType
<1> DEFINE last == Len(feed')
<1>3. last \in 1 .. Len(feed') /\ feed'[last] = [file |-> f, copy |-> copy]
  <2>1. last \in 1 .. Len(feed')
    BY <1>1, <1>2
  <2> QED
    BY <1>1, <2>1
<1>4. ASSUME NEW k \in 1 .. Len(feed'), LastAbout(feed', f, k)
      PROVE  feed'[k].copy = local'[f]
  <2>1. last \in About(feed', f)
    BY <1>3 DEF About
  <2>2. k = last
    BY <1>2, <1>4, <2>1 DEF LastAbout
  <2> QED
    BY <1>2, <1>3, <2>2
<1>5. ~(About(feed', f) = {})
  BY <1>3 DEF About
<1>6. ASSUME NEW g \in Files, g # f
      PROVE  /\ \A k \in 1 .. Len(feed') : LastAbout(feed', g, k) => feed'[k].copy = local'[g]
             /\ g \notin lost' /\ About(feed', g) = {} => known'[g] \in {local'[g], "unknown"}
  <2>1. local'[g] = local[g]
    BY <1>2, <1>6
  <2>2. \A k \in 1 .. Len(feed') : k \in About(feed', g) =>
          /\ k + drop \in 1 .. Len(feed) /\ k + drop \in About(feed, g) /\ feed'[k] = feed[k + drop]
    BY <1>1, <1>2, <1>3, <1>6 DEF About
  <2>3. ASSUME NEW k \in About(feed, g), k > drop
        PROVE  k - drop \in About(feed', g)
    <3>1. k \in 1 .. Len(feed) /\ feed[k].file = g
      BY <2>3 DEF About
    <3>2. k - drop \in 1 .. Len(feed') /\ k - drop < Len(feed') /\ (k - drop) + drop = k
      BY <1>1, <1>2, <2>3, <3>1
    <3>3. feed'[k - drop] = feed[k]
      BY <1>1, <3>2
    <3> QED
      BY <3>1, <3>2, <3>3 DEF About
  <2>4. ASSUME NEW k \in 1 .. Len(feed'), LastAbout(feed', g, k)
        PROVE  feed'[k].copy = local'[g]
    <3>1. k \in About(feed', g) /\ \A n \in About(feed', g) : n <= k
      BY <2>4 DEF LastAbout
    <3>2. LastAbout(feed, g, k + drop)
      <4>1. ASSUME NEW n \in About(feed, g)
            PROVE  n <= k + drop
        <5>1. n \in 1 .. Len(feed)
          BY DEF About
        <5>2. CASE n > drop
          BY <1>1, <1>2, <2>3, <3>1, <5>1, <5>2
        <5>3. CASE ~(n > drop)
          BY <1>1, <1>2, <5>1, <5>3
        <5> QED
          BY <5>2, <5>3
      <4> QED
        BY <2>2, <3>1, <4>1 DEF LastAbout
    <3>3. feed[k + drop].copy = local[g]
      BY <2>2, <3>1, <3>2 DEF StoreInv
    <3> QED
      BY <2>1, <2>2, <3>1, <3>3
  <2>5. ASSUME g \notin lost', About(feed', g) = {}
        PROVE  known'[g] \in {local'[g], "unknown"}
    <3>1. CASE drop = 0
      <4>1. \A k \in About(feed, g) : k > drop
        BY <3>1 DEF About
      <4>2. About(feed, g) = {} /\ g \notin lost
        BY <1>1, <1>6, <2>3, <2>5, <3>1, <4>1
      <4> QED
        BY <1>2, <2>1, <4>2 DEF StoreInv
    <3>2. CASE drop = 1
      <4>1. \A k \in 2 .. Len(feed) : k \notin About(feed, g)
        BY <1>2, <2>3, <2>5, <3>2
      <4>2. \A k \in 2 .. Len(feed) : feed[k].file # g
        BY <1>2, <4>1 DEF About
      <4>3. g \notin lost /\ g # feed[1].file
        BY <1>1, <1>6, <2>5, <3>2, <4>2
      <4>4. About(feed, g) = {}
        BY <1>2, <4>2, <4>3 DEF About
      <4> QED
        BY <1>2, <2>1, <4>3, <4>4 DEF StoreInv
    <3> QED
      BY <3>1, <3>2
  <2> QED
    BY <2>4, <2>5
<1> QED
  BY <1>4, <1>5, <1>6 DEF StoreInv

\* Folding keeps StoreInv: the update taken was the file's last, or another follows.
LEMMA FoldInv ==
  ASSUME RestType, StoreInv, Fold
  PROVE  StoreInv'
<1> DEFINE u == Head(feed)
<1>1. /\ feed \in Seq([file : Files, copy : Copies]) /\ feed # << >> /\ feed' = Tail(feed)
      /\ known' = [known EXCEPT ![u.file] = u.copy] /\ UNCHANGED <<local, lost>>
      /\ known \in [Files -> Copies \cup {"unknown"}]
  BY DEF RestType, Fold, Folded, ghosts
<1>2. /\ Len(feed) \in Nat \ {0} /\ Len(feed') = Len(feed) - 1
      /\ u = feed[1] /\ u \in [file : Files, copy : Copies]
      /\ \A k \in 1 .. Len(feed') : feed'[k] = feed[k + 1]
  BY <1>1, TakenFacts
<1> HIDE DEF u
<1>3. ASSUME NEW g \in Files
      PROVE  /\ \A k \in 1 .. Len(feed') : LastAbout(feed', g, k) => feed'[k].copy = local'[g]
             /\ g \notin lost' /\ About(feed', g) = {} => known'[g] \in {local'[g], "unknown"}
  <2>1. \A k \in About(feed, g) : k > 1 => k - 1 \in About(feed', g)
    BY <1>2 DEF About
  <2>2. \A k \in About(feed', g) : k + 1 \in About(feed, g)
    BY <1>2 DEF About
  <2>3. \A k \in About(feed, g) : k \in Nat /\ k >= 1
    BY <1>2 DEF About
  <2>4. ASSUME NEW k \in 1 .. Len(feed'), LastAbout(feed', g, k)
        PROVE  feed'[k].copy = local'[g]
    <3>1. k \in About(feed', g) /\ \A n \in About(feed', g) : n <= k
      BY <2>4 DEF LastAbout
    <3>2. LastAbout(feed, g, k + 1)
      BY <2>1, <2>2, <2>3, <3>1 DEF LastAbout
    <3>3. feed[k + 1].copy = local[g]
      BY <1>2, <3>2 DEF StoreInv
    <3> QED
      BY <1>1, <1>2, <3>3
  <2>5. ASSUME g \notin lost', About(feed', g) = {}
        PROVE  known'[g] \in {local'[g], "unknown"}
    <3>1. \A k \in About(feed, g) : k = 1
      BY <2>1, <2>3, <2>5
    <3>2. CASE u.file = g
      <4>1. 1 \in 1 .. Len(feed) /\ 1 \in About(feed, g)
        BY <1>2, <3>2 DEF About
      <4>2. LastAbout(feed, g, 1)
        BY <3>1, <4>1 DEF LastAbout
      <4>3. u.copy = local[g]
        BY <1>2, <4>1, <4>2 DEF StoreInv
      <4> QED
        BY <1>1, <3>2, <4>3
    <3>3. CASE u.file # g
      <4>1. 1 \notin About(feed, g)
        BY <1>2, <3>3 DEF About
      <4>2. About(feed, g) = {}
        BY <3>1, <4>1
      <4> QED
        BY <1>1, <2>5, <3>3, <4>2 DEF StoreInv
    <3> QED
      BY <3>2, <3>3
  <2> QED
    BY <2>4, <2>5
<1> QED
  BY <1>3 DEF StoreInv

\* Every step keeps the store in agreement with the files.
LEMMA StoreStep ==
  ASSUME RestType, StoreInv, [Next]_vars
  PROVE  StoreInv'
<1>1. CASE UNCHANGED <<local, feed, known, lost>>
  BY <1>1 DEF StoreInv, LastAbout, About
<1> QED
  BY <1>1, FileFrame, SentInv, FoldInv

-----------------------------------------------------------------------------
\* The rest.

\* Every sweep by age names chats, all of a category that is not kept.
LEMMA SweepStep ==
  ASSUME RestType, SweepSparesKept, [Next]_vars
  PROVE  SweepSparesKept' /\ sweeps' \subseteq Sweeps
<1>1. CASE SweepTick
  <2> DEFINE aged(k) == [chats |-> {c \in listed : CategoryOf[c] = k}, spared |-> policy.kept]
             all == [chats |-> {}, spared |-> {}]
  <2>1. ASSUME NEW s \in sweeps'
        PROVE  s \in sweeps \/ s = all \/ \E k \in Expiring : s = aged(k)
    BY <1>1 DEF SweepTick
  <2>2. listed \subseteq Chats /\ policy.kept \in SUBSET Categories
    BY DEF RestType
  <2>3. all \in Sweeps /\ \A c \in Covers(all) : CategoryOf[c] \notin all.spared
    BY DEF Sweeps
  <2>4. ASSUME NEW k \in Expiring
        PROVE  aged(k) \in Sweeps /\ \A c \in Covers(aged(k)) : CategoryOf[c] \notin aged(k).spared
    <3>1. k \notin policy.kept /\ \E c \in listed : CategoryOf[c] = k
      BY DEF Expiring
    <3>2. aged(k).chats # {} /\ aged(k).chats \in SUBSET Chats
      BY <2>2, <3>1
    <3>3. Covers(aged(k)) = {c \in listed : CategoryOf[c] = k}
      BY <3>2 DEF Covers
    <3>4. aged(k) \in Sweeps
      BY <2>2, <3>2 DEF Sweeps
    <3> QED
      BY <3>1, <3>3, <3>4
  <2> HIDE DEF aged, all
  <2> QED
    BY <2>1, <2>3, <2>4 DEF SweepSparesKept, RestType
<1>2. CASE sweeps' \subseteq sweeps
  BY <1>2 DEF SweepSparesKept, RestType
<1>3. SweepTick \/ sweeps' \subseteq sweeps
  <2> DEFINE fewer == sweeps' \subseteq sweeps
  <2>1. (\E m \in Messages : Learn(m) \/ Save(m)) \/ Tick \/ (\E o \in Chats \cup {NoChat} : MoveTo(o))
          => fewer
    BY DEF Learn, Save, Tick, MoveTo
  <2>2. (\E j \in jobs : Encode(j) \/ TakeReport(j)) \/ ToggleGraphics \/ EditPolicy \/ Fold
          \/ UNCHANGED vars => fewer
    BY DEF Encode, TakeReport, ToggleGraphics, EditPolicy, Fold, vars
  <2>3. (\E f \in Files : Answer(f) \/ Transferred(f))
          \/ (\E s \in sweeps : SweepEnds(s) \/ \E f \in Files : SweepDeletes(s, f)) => fewer
    BY DEF Answer, Transferred, SweepEnds, SweepDeletes
  <2> QED
    BY <2>1, <2>2, <2>3 DEF Next
<1> QED
  BY <1>1, <1>2, <1>3

\* The types of the files and the feed.
LEMMA FileType ==
  ASSUME RestType, [Next]_vars
  PROVE  /\ local' \in [Files -> Copies]
         /\ feed' \in Seq([file : Files, copy : Copies]) /\ Len(feed') <= Capacity
         /\ known' \in [Files -> Copies \cup {"unknown"}]
         /\ lost' \subseteq Files
<1>1. ASSUME NEW f \in Files, NEW copy \in Copies, SentFor(f, copy)
      PROVE  /\ local' \in [Files -> Copies]
             /\ feed' \in Seq([file : Files, copy : Copies]) /\ Len(feed') <= Capacity
             /\ known' \in [Files -> Copies \cup {"unknown"}]
             /\ lost' \subseteq Files
  <2>1. local' \in [Files -> Copies] /\ known' \in [Files -> Copies \cup {"unknown"}]
    BY <1>1 DEF SentFor, RestType
  <2>2. /\ feed' \in Seq([file : Files, copy : Copies]) /\ Len(feed') \in 1 .. Capacity
        /\ lost' \subseteq Files
    BY <1>1, SendFacts DEF SentFor
  <2> QED
    BY <2>1, <2>2
<1>2. CASE Fold
  <2>1. /\ feed # << >> /\ feed' = Tail(feed) /\ UNCHANGED <<local, lost>>
        /\ known' = [known EXCEPT ![Head(feed).file] = Head(feed).copy]
    BY <1>2 DEF Fold, Folded, ghosts
  <2>2. /\ Head(feed) \in [file : Files, copy : Copies] /\ Len(feed) \in Nat
        /\ feed' \in Seq([file : Files, copy : Copies]) /\ Len(feed') = Len(feed) - 1
    BY <2>1, TakenFacts DEF RestType
  <2>3. known' \in [Files -> Copies \cup {"unknown"}]
    BY <2>1, <2>2 DEF RestType
  <2> QED
    BY <2>1, <2>2, <2>3 DEF RestType
<1>3. CASE UNCHANGED <<local, feed, known, lost>>
  BY <1>3 DEF RestType
<1> QED
  BY <1>1, <1>2, <1>3, FileFrame

\* The types of what the loop only reads, and of the counters.
LEMMA OtherType ==
  ASSUME LoopType, RestType, [Next]_vars
  PROVE  /\ history' \subseteq Messages /\ people' \subseteq Users /\ listed' \subseteq Chats
         /\ policy' \in Policies /\ unlucky' \subseteq Files
         /\ failures' \in 0 .. MaxFailures /\ choices' \in 0 .. MaxChoices
<1> DEFINE same == UNCHANGED <<history, people, listed>>
           fair == UNCHANGED <<failures, unlucky>>
           kept == UNCHANGED <<policy, choices>>
<1>1. same \/ \E m \in Messages : Learn(m)
  <2>1. \A o, g, reports, saving : Turn(o, g, reports, saving) => same
    BY DEF Turn, storeVars
  <2>2. (\E m \in Messages : Save(m)) \/ Tick \/ (\E o \in Chats \cup {NoChat} : MoveTo(o)) => same
    BY <2>1 DEF Save, Tick, MoveTo
  <2>3. (\E j \in jobs : TakeReport(j)) \/ ToggleGraphics \/ EditPolicy \/ SweepTick => same
    BY <2>1 DEF TakeReport, ToggleGraphics, EditPolicy, SweepTick
  <2>4. (\E f \in Files : Answer(f) \/ Transferred(f)) \/ (\E j \in jobs : Encode(j)) => same
    BY DEF Answer, Transferred, Encode, storeVars
  <2>5. (\E s \in sweeps : SweepEnds(s) \/ \E f \in Files : SweepDeletes(s, f)) \/ Fold
          \/ UNCHANGED vars => same
    BY DEF SweepEnds, SweepDeletes, Fold, storeVars, vars
  <2> QED
    BY <2>2, <2>3, <2>4, <2>5 DEF Next
<1> DEFINE counted == failures' \in {failures, failures + 1}
                      /\ (failures' = failures \/ failures < MaxFailures)
           grown == unlucky' = unlucky \/ \E f \in Files : unlucky' = unlucky \cup {f}
<1>2. counted /\ grown
  <2>1. \A o, g, reports, saving : Turn(o, g, reports, saving) => fair
    BY DEF Turn
  <2>2. (\E m \in Messages : Save(m)) \/ Tick \/ (\E o \in Chats \cup {NoChat} : MoveTo(o)) => fair
    BY <2>1 DEF Save, Tick, MoveTo
  <2>3. (\E j \in jobs : TakeReport(j)) \/ ToggleGraphics \/ EditPolicy \/ SweepTick => fair
    BY <2>1 DEF TakeReport, ToggleGraphics, EditPolicy, SweepTick
  <2>4. (\E m \in Messages : Learn(m)) \/ Fold \/ (\E s \in sweeps : SweepEnds(s)) \/ UNCHANGED vars => fair
    BY DEF Learn, Fold, SweepEnds, ghosts, vars
  <2>5. ASSUME NEW j \in jobs, Encode(j)
        PROVE  counted /\ grown
    BY <2>5 DEF Encode, ghosts
  <2>6. ASSUME NEW f \in Files, Answer(f) \/ Transferred(f) \/ \E s \in sweeps : SweepDeletes(s, f)
        PROVE  counted /\ grown
    BY <2>6 DEF Answer, Transferred, SweepDeletes, ghosts
  <2>7. fair => counted /\ grown
    OBVIOUS
  <2> HIDE DEF counted, grown
  <2> QED
    BY <2>2, <2>3, <2>4, <2>5, <2>6, <2>7 DEF Next
<1>3. policy' \in Policies /\ choices' \in {choices, choices + 1}
      /\ (choices' = choices \/ choices < MaxChoices)
  <2>2. (\E m \in Messages : Save(m)) \/ ToggleGraphics \/ EditPolicy \/ SweepTick
          => /\ policy' \in Policies /\ choices' = choices + 1 /\ choices < MaxChoices
    BY DEF Save, ToggleGraphics, EditPolicy, SweepTick, Chosen, RestType
  <2>3. Tick \/ (\E o \in Chats \cup {NoChat} : MoveTo(o)) \/ (\E j \in jobs : TakeReport(j)) => kept
    BY DEF Tick, MoveTo, TakeReport
  <2>4. (\E m \in Messages : Learn(m)) \/ Fold \/ (\E f \in Files : Answer(f) \/ Transferred(f)) => kept
    BY DEF Learn, Fold, Answer, Transferred
  <2>5. (\E s \in sweeps : SweepEnds(s) \/ \E f \in Files : SweepDeletes(s, f))
          \/ (\E j \in jobs : Encode(j)) \/ UNCHANGED vars => kept
    BY DEF SweepEnds, SweepDeletes, Encode, vars
  <2> QED
    BY <2>2, <2>3, <2>4, <2>5 DEF Next, RestType
<1>4. history' \subseteq Messages /\ people' \subseteq Users /\ listed' \subseteq Chats
  <2>1. ASSUME NEW m \in Messages, Learn(m)
        PROVE  history' \subseteq Messages /\ people' \subseteq Users /\ listed' \subseteq Chats
    BY <2>1 DEF Learn, RestType
  <2> QED
    BY <1>1, <2>1 DEF RestType
<1>5. unlucky' \subseteq Files /\ failures' \in 0 .. MaxFailures
  BY <1>2 DEF RestType
<1>6. choices' \in 0 .. MaxChoices
  BY <1>3 DEF RestType
<1> QED
  BY <1>3, <1>4, <1>5, <1>6

-----------------------------------------------------------------------------
\* The parts together.

\* At the start nothing is known, marked or under way.
LEMMA InitInv == Init => IInv
<1> SUFFICES ASSUME Init PROVE IInv
  OBVIOUS
<1> USE DEF Init
<1>1. LoopType
  <2>1. graphics \in BOOLEAN
    BY Zenon
  <2> QED
    BY <2>1 DEF LoopType
<1>2. RestType
  BY DEF RestType, Copies
<1>3. AskedInv /\ JobInv
  BY DEF AskedInv, JobInv, Keys
<1>4. StoreInv
  BY DEF StoreInv, LastAbout, About
<1>5. SweepSparesKept
  BY DEF SweepSparesKept
<1> QED
  BY <1>1, <1>2, <1>3, <1>4, <1>5 DEF IInv

\* The types, what the loop remembers, the encodings marked, the files' last updates and
\* the sweeps stay as the inductive invariant has them, whatever fails or is lost.
THEOREM TransfersInductive == Spec => []IInv
<1>1. Init => IInv
  BY InitInv
<1>2. IInv /\ [Next]_vars => IInv'
  <2> SUFFICES ASSUME IInv, [Next]_vars
               PROVE  IInv'
    OBVIOUS
  <2>1. LoopType' /\ AskedInv' /\ JobInv'
    BY LoopStep DEF IInv
  <2>2. StoreInv'
    BY StoreStep DEF IInv
  <2>3. SweepSparesKept' /\ sweeps' \subseteq Sweeps
    BY SweepStep DEF IInv
  <2>4. RestType'
    <3>1. LoopType /\ RestType
      BY DEF IInv
    <3> QED
      BY <2>3, <3>1, FileType, OtherType DEF RestType
  <2> QED
    BY <2>1, <2>2, <2>3, <2>4 DEF IInv
<1> QED
  BY <1>1, <1>2, PTL DEF Spec

\* With one encoding to a key there are as many of a kind as keys.
LEMMA JobCount ==
  ASSUME LoopType, JobInv, NEW kind \in {"avatar", "media"}, IsFiniteSet(Keys(jobs, kind))
  PROVE  LET own == {j \in jobs : j.kind = kind} IN
           IsFiniteSet(own) /\ Cardinality(own) = Cardinality(Keys(jobs, kind))
<1> DEFINE own == {j \in jobs : j.kind = kind}
           keyOf == [j \in own |-> j.key]
<1>1. keyOf \in [own -> Keys(jobs, kind)]
  BY DEF Keys
<1>2. \A k \in Keys(jobs, kind) : \E j \in own : keyOf[j] = k
  BY DEF Keys
<1>3. \A i, j \in own : keyOf[i] = keyOf[j] => i = j
  BY DEF JobInv
<1> HIDE DEF keyOf, own
<1>4. keyOf \in Injection(own, Keys(jobs, kind)) /\ keyOf \in Surjection(own, Keys(jobs, kind))
  BY <1>1, <1>2, <1>3 DEF Injection, Surjection, IsInjective
<1> QED
  BY <1>4, FS_Injection DEF own

\* An encoding is marked exactly while there is one, and no file is asked for in two
\* passes (drive_downloads, drive_avatars, drive_inline_media and their reports).
THEOREM MarksMeanWorkHolds == Spec => []MarksMeanWork
<1>1. IInv => MarksMeanWork
  <2> SUFFICES ASSUME IInv PROVE MarksMeanWork
    OBVIOUS
  <2>1. LoopType /\ RestType /\ AskedInv /\ JobInv
    BY DEF IInv
  <2>2. TypeOK
    BY Zenon, <2>1 DEF LoopType, RestType, TypeOK
  <2>3. AskedInOnePass
    BY <2>1 DEF AskedInv, AskedInOnePass
  <2> DEFINE bubbles == {j \in jobs : j.kind = "avatar"}
             images == {j \in jobs : j.kind = "media"}
  <2>4. IsFiniteSet(avatarEncoding) /\ IsFiniteSet(mediaEncoding)
    BY <2>1, FinitenessAssumption, IdsFinite, FS_Subset DEF LoopType
  <2>5. /\ IsFiniteSet(bubbles) /\ Cardinality(bubbles) = Cardinality(avatarEncoding)
        /\ IsFiniteSet(images) /\ Cardinality(images) = Cardinality(mediaEncoding)
    BY <2>1, <2>4, JobCount DEF JobInv
  <2>6. jobs = bubbles \cup images /\ bubbles \cap images = {}
    BY <2>1, JobFacts DEF LoopType
  <2>7. Cardinality(jobs) = Cardinality(bubbles) + Cardinality(images)
    <3> HIDE DEF bubbles, images
    <3>1. Cardinality(bubbles \cup images)
            = Cardinality(bubbles) + Cardinality(images) - Cardinality(bubbles \cap images)
      BY <2>5, FS_Union
    <3>2. Cardinality(bubbles) \in Nat /\ Cardinality(images) \in Nat
      BY <2>5, FS_CardinalityType
    <3>3. Cardinality(bubbles \cap images) = 0
      BY <2>6, FS_EmptySet
    <3> QED
      BY <2>6, <3>1, <3>2, <3>3
  <2> QED
    BY <2>1, <2>2, <2>3, <2>5, <2>7 DEF MarksMeanWork, JobInv
<1> QED
  BY <1>1, TransfersInductive, PTL

\* With no update of a file on its way or lost, the store has TDLib's state of it
\* (FileStore::upsert behind the broadcast channel).
THEOREM StoreFollowsHolds == Spec => []StoreFollows
<1>1. IInv => StoreFollows
  BY DEF IInv, StoreInv, StoreFollows, About
<1> QED
  BY <1>1, TransfersInductive, PTL

\* No sweep by age covers a chat of a category kept forever (drive_storage_sweep).
THEOREM SweepSparesKeptHolds == Spec => []SweepSparesKept
<1>1. IInv => SweepSparesKept
  BY DEF IInv
<1> QED
  BY <1>1, TransfersInductive, PTL

=============================================================================
