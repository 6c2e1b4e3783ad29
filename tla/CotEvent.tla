------------------------------- MODULE CotEvent -------------------------------
(***************************************************************************)
(* What a CoT event says of an aircraft (cot_pipeline.py): its type, which *)
(* a transform, TIS-B and distress each override, its callsign and remarks,*)
(* and how the two serializers write the text of it.                       *)
(*                                                                         *)
(* An aircraft is what the decisions below tell apart; a transform's texts *)
(* are only blank or not.                                                  *)
(*                                                                         *)
(* A definition whose name begins with Bug is a mistake the code does not  *)
(* make: put in place of the definition below it, it breaks a property.    *)
(***************************************************************************)
EXTENDS Integers, Sequences

CONSTANT MaxText  \* bound: the length of a text

\* An affiliation, civil or military, and a class.
CotType == [aff : {"f", "h", "n", "u"}, mil : BOOLEAN,
            class : {"LTA", "UAV", "rotor", "fixed", "air", "unknown"}]

UnknownAir == [aff |-> "u", mil |-> FALSE, class |-> "unknown"]

\* type: readsb's source; t_adsb and the like, or else the type t looked up, give
\* desc: the first letter of a type description, or "".  emergency: "nordo" stands
\* for the codes of _EMERGENCY_CODE_LABELS, "emerg-x" for others that mention an
\* emergency, and "minfuel" for those that do not.
Aircraft == [mil : BOOLEAN, category : {"", "7", "0x0A", "14", "3", "A7", "256"},
             desc : {"", "H", "L"}, type : {"adsb", "tisb"},
             squawk : {"", "1200", "7700", "tis-b"},
             emergency : {"", "none", "nordo", "emerg-x", "minfuel"}, flight : BOOLEAN]

\* cot: the type it gives, if any.
Transform == [cot : {"", "f", "h", "n"}, callsign : BOOLEAN, remarks : BOOLEAN]

VARIABLES
    crafts,  \* the aircraft looked at: one, or none
    texts    \* the text of an event looked at: one, or none

\* "<" also stands for its counterpart, "return" is CR.
EventChars == {"x", "&", "<", "quote", "newline", "return", "tab"}

Texts == UNION {[1..n -> EventChars] : n \in 0..MaxText}

CraftsInit == crafts \in {{ac} : ac \in Aircraft}
TextsInit == texts \in {{s} : s \in Texts}

\* The texts alone: nothing moves.
TextsSpec == TextsInit /\ crafts = {} /\ [][FALSE]_<<crafts, texts>>

-----------------------------------------------------------------------------
\* _parse_category_int.  Text of two characters with a letter is hexadecimal, so
\* that readsb's A7 (a rotorcraft) is 167 and says nothing; -1: not in a byte.
CategoryInt(c) ==
    CASE c = "7" -> 7 [] c = "0x0A" -> 10 [] c = "14" -> 14 [] c = "3" -> 3
      [] c = "A7" -> 167 [] c \in {"", "256"} -> -1

CotTypeFromAircraft(ac) ==
    LET cat == CategoryInt(ac.category)
        class == CASE cat = 10 -> "LTA"
                   [] cat \in {11, 14} -> "UAV"
                   [] cat \notin {10, 11, 14} /\ (ac.desc = "H" \/ cat = 7) -> "rotor"
                   [] cat \notin {7, 10, 11, 14} /\ ac.desc # "H"
                        /\ (ac.desc = "L" \/ cat \in 1..6 \cup {9, 12}) -> "fixed"
                   [] OTHER -> "air"
    IN  [aff |-> "f", mil |-> ac.mil, class |-> class]

IsTisb(ac) == ac.type = "tisb" \/ ac.squawk = "tis-b"

Labels == {"nordo"}            \* _EMERGENCY_CODE_LABELS with a meaning
Mentioning == {"emerg-x"}      \* those in which "emerg" is found

\* _distress_descriptor: a squawk of the list, a code with a label, or one without
\* that mentions an emergency.  Any other says nothing.
Distress(ac) == ac.squawk = "7700" \/ ac.emergency \in Labels \cup Mentioning

Hostile(t) == IF t.aff \in {"f", "h"} THEN [t EXCEPT !.aff = "h"] ELSE t

\* tfs: the transform, if there is one.
Styled(ac, tfs) ==
    IF \E tf \in tfs : tf.cot # ""
    THEN [aff |-> (CHOOSE tf \in tfs : TRUE).cot, mil |-> FALSE, class |-> "air"]
    ELSE CotTypeFromAircraft(ac)

BugEventType(ac, tfs, hostile) ==
    IF IsTisb(ac) THEN UnknownAir
    ELSE IF hostile /\ Distress(ac) THEN Hostile(CotTypeFromAircraft(ac))
    ELSE Styled(ac, tfs)

\* What the aircraft itself says of its class is never unknown air, so a TIS-B
\* track in distress is shown as hostile too.
EventType(ac, tfs, hostile) ==
    IF hostile /\ Distress(ac)
    THEN LET base == CotTypeFromAircraft(ac)
         IN  IF base # UnknownAir THEN Hostile(base) ELSE base
    ELSE IF IsTisb(ac) THEN UnknownAir
    ELSE Styled(ac, tfs)

Callsign(ac, tfs, hostile) ==
    [alert |-> hostile /\ Distress(ac),
     from  |-> IF \E tf \in tfs : tf.callsign THEN "transform"
               ELSE IF ac.flight THEN "flight" ELSE "hex"]

Only(cond, s) == IF cond THEN <<s>> ELSE <<>>

\* The parts of the remarks after the product, the feed and the hex.
Remarks(ac, tfs, hostile) ==
    Only(hostile /\ Distress(ac), "distress")
      \o Only(tfs # {}, "CoT-Proxy")
      \o Only(IsTisb(ac), "TISB_B")
      \o IF \E tf \in tfs : tf.remarks THEN <<"remarks">>
         ELSE Only(~IsTisb(ac) /\ ac.squawk # "", "squawk") \o Only(ac.category # "", "category")

\* _compute_cot_xml_parts, of an aircraft with a hex and a position.
EventParts(ac, tfs, hostile) ==
    [type |-> EventType(ac, tfs, hostile), callsign |-> Callsign(ac, tfs, hostile),
     remarks |-> Remarks(ac, tfs, hostile)]

-----------------------------------------------------------------------------
(* Serializers: the characters they write for a text *)

\* Each c in s becomes an ampersand and a name.
Named(s, c, name) ==
    LET to[i \in 0..Len(s)] ==
            IF i = 0 THEN <<>>
            ELSE to[i - 1] \o IF s[i] = c THEN <<"&", name>> ELSE <<s[i]>>
    IN  to[Len(s)]

BugXmlEscape(s) == Named(Named(Named(s, "<", "lt;"), "quote", "quot;"), "&", "amp;")

\* _xml_escape, with which the template writes attributes and text alike.
XmlEscape(s) == Named(Named(Named(s, "&", "amp;"), "<", "lt;"), "quote", "quot;")

\* ElementTree escapes quotes, line ends and tabs in attributes only.
TreeText(s) == Named(Named(s, "&", "amp;"), "<", "lt;")
TreeAttribute(s) ==
    Named(Named(Named(Named(TreeText(s), "quote", "quot;"), "return", "#13;"),
                "newline", "#10;"), "tab", "#09;")

Has(s, c) == \E i \in DOMAIN s : s[i] = c

-----------------------------------------------------------------------------
(* Properties *)

\* With the option on, an aircraft that says it is in distress is shown as such
\* whatever its transform or TIS-B would make of it: the hostile type of its own
\* class, the prefix and the remark.  It is when it squawks 7700 or its emergency
\* code is neither empty, nor "none", nor unknown to the program.  Otherwise nothing
\* but a transform's own type shows an aircraft as hostile, and a TIS-B track is
\* unknown air.
AlertIsHostile ==
    \A ac \in crafts, tfs \in {{}} \cup {{tf} : tf \in Transform}, hostile \in BOOLEAN :
      LET e == EventParts(ac, tfs, hostile)
          alert == hostile /\ (\/ ac.squawk = "7700"
                               \/ ac.emergency \notin {"", "none", "minfuel"})
      IN  /\ e.callsign.alert = alert /\ Has(e.remarks, "distress") = alert
          /\ e.type.aff = "h" <=> alert \/ (~IsTisb(ac) /\ \E tf \in tfs : tf.cot = "h")
          /\ alert => [e.type EXCEPT !.aff = "f"] = CotTypeFromAircraft(ac)
          /\ ~alert /\ IsTisb(ac) => e.type = UnknownAir

\* The two serializers write an attribute the same unless it has a line end or a tab,
\* and the remarks the same unless they have a quotation mark.
SerializersAgree ==
    \A s \in texts :
        /\ XmlEscape(s) = TreeAttribute(s)
             <=> ~Has(s, "newline") /\ ~Has(s, "return") /\ ~Has(s, "tab")
        /\ XmlEscape(s) = TreeText(s) <=> ~Has(s, "quote")

\* The serializers' docstring says that they "must match byte-for-byte"
\* (_serialize_cot_xml_et).  They do not: a remark with a quotation mark and a
\* callsign with a tab are written differently.
SerializersMatch ==
    \A s \in texts : XmlEscape(s) = TreeAttribute(s) /\ XmlEscape(s) = TreeText(s)
=============================================================================
