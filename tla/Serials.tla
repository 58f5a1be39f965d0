------------------------------ MODULE Serials ------------------------------
(***************************************************************************)
(* The spellings of a serial between a device and a rule: how usbguard     *)
(* prints it, how parse_list_devices (crates/backend-usbguard/src/lib.rs)  *)
(* reads that, how generate_rules_from_baseline (crates/daemon/src/dbus.rs)*)
(* writes it into a rule and how usbguard reads the rule.  A serial is a   *)
(* sequence of characters; Ordinary stands for all that nothing is done    *)
(* to.                                                                     *)
(***************************************************************************)
EXTENDS Sequences, SequencesExt

Ordinary  == "x"
Question  == "?"
Quote     == "quote"
Backslash == "backslash"
Control   == "control"

\* What each character of a serial is replaced by.
Replaced(s, By(_)) == FlattenSeq([i \in DOMAIN s |-> By(s[i])])

\* usbguard prints a control character as \xHH, which begins like that.
Printed(s) ==
  Replaced(s, LAMBDA c : CASE c \in {Quote, Backslash} -> <<Backslash, c>>
                           [] c = Control -> <<Backslash, Ordinary>>
                           [] OTHER -> <<c>>)

\* Up to the closing quote; a backslash goes and what follows it stays.
RECURSIVE Parsed(_)
Parsed(text) ==
  IF text = <<>> \/ Head(text) = Quote THEN <<>>
  ELSE IF Head(text) # Backslash THEN <<Head(text)>> \o Parsed(Tail(text))
  ELSE IF Len(text) = 1 THEN <<>>
  ELSE <<text[2]>> \o Parsed(SubSeq(text, 3, Len(text)))

SanitizeRuleString(s) == Replaced(s, LAMBDA c : IF c = Control THEN <<Question>> ELSE <<c>>)

\* The mistake of leaving quotes as they are.
EscapedNot(s) == s

Escaped(s) == Replaced(s, LAMBDA c : IF c = Quote THEN <<Backslash, Quote>> ELSE <<c>>)

\* usbguard reads the string of a rule as parse_list_devices does.
ReadInRule(text) == Parsed(text)

-----------------------------------------------------------------------------

ListedAs(s) == Parsed(Append(Printed(s), Quote))

RuledAs(s) == ReadInRule(Append(Escaped(SanitizeRuleString(s)), Quote))

IsPlain(s) == \A i \in DOMAIN s : s[i] \notin {Backslash, Control}
=============================================================================
