----------------------------- MODULE UpsReading -----------------------------
(***************************************************************************)
(* How one read of a device becomes the UpsState a trigger looks at:       *)
(* app/ups.py (SNMP), app/nut.py (NUT) and the bound app/sources.py puts   *)
(* around both.                                                            *)
(*                                                                         *)
(* A device is a record of what it would answer; the objects no trigger    *)
(* reads are one flag.  A read of the network has an outcome: "ok", "lost" *)
(* (no usable reply in time), "error" (it answers with an error), "raises" *)
(* (the library does).  Texts, identities and the raw evidence are left    *)
(* out.                                                                    *)
(***************************************************************************)
EXTENDS UpsTrigger, Sequences

\* Beside the numbers a device reports, negative ones included:
Missing == None - 1    \* an object the device does not implement or publish
Garbled == None - 2    \* a value that is not a number
NotFinite == None - 3  \* "nan" or "inf": float() reads it, int() raises

\* What a device reveals before it can be read: it answered, and that is all.
AnsweredOnly == [Silence EXCEPT !.answered = TRUE]

-----------------------------------------------------------------------------
(***************************************************************************)
(* SNMP.  A MIB holds the raw values of the four objects a trigger reads,  *)
(* and whether any other object of the profile is there.                   *)
(***************************************************************************)
RfcSource ==
  << "unknown", "none", "mains", "bypass", "battery", "mains", "mains" >>

RfcBattery == << "unknown", "normal", "low", "depleted" >>

ApcSource ==
  << "unknown", "mains", "battery", "mains", "none", "bypass", "none", "other",
     "bypass", "bypass", "none", "mains", "mains", "mains", "mains", "bypass",
     "bypass", "mains", "mains", "mains", "mains" >>

ApcBattery == << "unknown", "normal", "low", "low", "low" >>

\* RFC 1628 counts minutes, PowerNet hundredths of a second.
Rfc1628 == [source |-> RfcSource, battery |-> RfcBattery, minute |-> 1]
Apc == [source |-> ApcSource, battery |-> ApcBattery, minute |-> 6000]

Usable(raw) == raw # Missing

Word(table, raw) == IF raw \in DOMAIN table THEN table[raw] ELSE "unknown"

\* A number in units of the profile, rounded down, a negative one too; nothing
\* where there is none.
Converted(raw, unit) ==
  IF raw \in {Missing, Garbled, NotFinite} THEN None ELSE raw \div unit

Fields == {"source", "battery", "runtime", "charge"}

Implemented(mib) == mib.other \/ \E f \in Fields : Usable(mib[f])

MapState(profile, mib) ==
  LET source == Word(profile.source, mib.source)
      usable == Implemented(mib) /\ source # "unknown"
  IN [reachable |-> usable, answered |-> TRUE,
      on_battery |-> source = "battery",
      battery_low |-> Word(profile.battery, mib.battery) \in {"low", "depleted"},
      runtime_remaining_min |-> Converted(mib.runtime, profile.minute),
      battery_charge_pct |-> Converted(mib.charge, 1)]

\* The second GET, of the vendor MIB the device answered for.
ReadVendor(card) ==
  IF card.second = "ok" THEN MapState(Apc, card.apc) ELSE AnsweredOnly

\* "auto" reads the standard.  A card that also answers the vendor's anchor is
\* read there; SNMPv1 refuses the whole GET instead of naming what is missing.
SnmpPoll(card) ==
  LET auto == card.mib = "auto"
      profile == IF card.mib = "apc" THEN Apc ELSE Rfc1628
      objects == IF card.mib = "apc" THEN card.apc ELSE card.rfc
      turns == /\ auto
               /\ IF card.v1 THEN card.first = "error"
                  ELSE card.first = "ok" /\ Usable(card.apc.source)
  IN IF ~card.configured \/ card.first \in {"lost", "raises"} THEN Silence
     ELSE IF turns THEN ReadVendor(card)
     ELSE IF card.first = "error" THEN AnsweredOnly
     ELSE MapState(profile, objects)

-----------------------------------------------------------------------------
(***************************************************************************)
(* NUT.  upsd publishes variables by name; ups.status is a set of flags.   *)
(***************************************************************************)
PowerFlags ==
  << <<"OB", "battery">>, <<"BYPASS", "bypass">>, <<"OFF", "none">>,
     <<"OL", "mains">> >>

LowFlags == {"LB", "FSD"}

\* The first of the power flags the status carries names the source.
PowerSource(flags) ==
  LET Carried(entry) == entry[1] \in flags
      carried == SelectSeq(PowerFlags, Carried)
  IN IF carried = << >> THEN "unknown" ELSE Head(carried)[2]

\* Without ups.status neither the source nor the battery is known.
ApplyVariables(upsd) ==
  LET source == PowerSource(upsd.flags)
  IN [reachable |-> upsd.status /\ source # "unknown", answered |-> TRUE,
      on_battery |-> upsd.status /\ source = "battery",
      battery_low |-> upsd.status /\ upsd.flags \cap LowFlags # {},
      runtime_remaining_min |-> Converted(upsd.runtime, 60),
      battery_charge_pct |-> Converted(upsd.charge, 1)]

\* "ERR <code>" is an answer; a refused, closed or silent connection is none.
\* A number that is not finite raises while the variables are applied, be it the
\* output load no trigger reads: nobody below SourcePoll catches that.
NutPoll(upsd) ==
  IF ~upsd.configured \/ upsd.session \in {"lost", "raises"} THEN Silence
  ELSE IF upsd.session = "error" THEN AnsweredOnly
  ELSE IF NotFinite \in {upsd.charge, upsd.load, upsd.runtime} THEN Silence
  ELSE ApplyVariables(upsd)

-----------------------------------------------------------------------------
\* Bounded as a whole and total: a read that overruns its budget or raises is a
\* device that said nothing, whatever it had said until then.
SourcePoll(device) ==
  IF device.overruns THEN Silence
  ELSE IF device.type = "nut" THEN NutPoll(device)
  ELSE IF device.type = "snmp" THEN SnmpPoll(device)
  ELSE Silence

=============================================================================
