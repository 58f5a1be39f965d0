------------------------------ MODULE MCEditor ------------------------------
(* An instance of BaselineEditor for TLC, with the spellings of Serials.   *)
EXTENDS BaselineEditor, Serials

MCNoSerial == <<>>

\* Serials with a quote, a backslash, a control character and none of these,
\* and what they may turn into.  A backslash at the end or before a quote would
\* take the closing quote of the rule with it; those are left out.
MCSerial == {MCNoSerial, <<Ordinary>>, <<Question>>, <<Quote>>, <<Backslash, Ordinary>>, <<Control>>}

MCListed == [s \in MCSerial |-> ListedAs(s)]
MCRuled == [s \in MCSerial |-> RuledAs(s)]
MCPlain == {s \in MCSerial : IsPlain(s)}
=============================================================================
