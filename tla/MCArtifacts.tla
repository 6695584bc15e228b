---------------------------- MODULE MCArtifacts ----------------------------
(* A small legacy dataset with one retired and one supported event.        *)
EXTENDS Artifacts

(* The events' semantics, and the retired one's interpretation of one      *)
(* observation and explain job; a chunk of text that both have, where both *)
(* are stored; a cached comparison of supported rows only, and one of its  *)
(* group left from an earlier signature; a cross-venue suggestion, a later *)
(* one of the same match without the retired event, the job that made them *)
(* and a reading that rests on the later one; a supported event whose      *)
(* semantics mention the retired one, so that the migration cannot keep    *)
(* it; a row captured later with content that the migration removed.       *)
Table ==
    [usEvent    |-> [kind |-> "event", uses |-> {}, topic |-> "", by |-> {}, names |-> {}],
     usSem      |-> [kind |-> "node", uses |-> {"usEvent"}, topic |-> "", by |-> {}, names |-> {"us", "shared"}],
     usInt      |-> [kind |-> "interpretation", uses |-> {"usSem"}, topic |-> "o", by |-> {}, names |-> {"ir"}],
     usJob      |-> [kind |-> "job", uses |-> {"usSem"}, topic |-> "", by |-> {}, names |-> {}],
     sem        |-> [kind |-> "node", uses |-> {}, topic |-> "", by |-> {}, names |-> {"shared"}],
     mixSem     |-> [kind |-> "node", uses |-> {"usEvent"}, topic |-> "", by |-> {}, names |-> {}],
     mixEvent   |-> [kind |-> "event", uses |-> {}, topic |-> "", by |-> {}, names |-> {}],
     chunk      |-> [kind |-> "node", uses |-> {}, topic |-> "", by |-> {"usSem", "sem"}, names |-> {}],
     cachedRow  |-> [kind |-> "cached", uses |-> {"sem"}, topic |-> "o", by |-> {}, names |-> {}],
     oldCached  |-> [kind |-> "cached", uses |-> {"sem"}, topic |-> "o", by |-> {}, names |-> {}],
     crossMatch |-> [kind |-> "suggestions", uses |-> {"usSem", "sem"}, topic |-> "m", by |-> {}, names |-> {}],
     ownMatch   |-> [kind |-> "suggestions", uses |-> {"sem"}, topic |-> "m", by |-> {}, names |-> {}],
     matchJob   |-> [kind |-> "match", uses |-> {}, topic |-> "m", by |-> {}, names |-> {}],
     reading    |-> [kind |-> "node", uses |-> {"ownMatch"}, topic |-> "", by |-> {}, names |-> {"read"}],
     again      |-> [kind |-> "node", uses |-> {}, topic |-> "", by |-> {}, names |-> {"us", "new"}]]

TheRows == DOMAIN Table
TheKind == [r \in TheRows |-> Table[r].kind]
TheUses == [r \in TheRows |-> Table[r].uses]
TheTopic == [r \in TheRows |-> Table[r].topic]
TheProducers == [r \in TheRows |-> Table[r].by]
TheEvidence == [r \in TheRows |-> Table[r].names]
TheRetired == {"usEvent", "usSem"}
TheRecorded == {"cachedRow"}
TheSemantics ==
    [r \in TheRows |-> CASE r = "usEvent" -> {"usSem"}
                         [] r = "mixEvent" -> {"mixSem"}
                         [] OTHER -> {}]
=============================================================================
