---------------------------- MODULE MCActivityDB ----------------------------
(* Instances of ActivityDB for TLC.                                        *)
EXTENDS ActivityRefinement

CONSTANTS v1, v2

Pay(type, tx, time, confirm, sound, content) ==
    [activity_type |-> type, tx_type |-> tx, timestamp |-> time,
     confirm_timestamp |-> confirm, sound |-> sound, content |-> content]

\* Unconfirmed; confirmed at once; moved past another payload's confirmation;
\* confirmed before it happened; refused by a CHECK; not dated; dated beyond
\* i64::MAX.  Lightning: pending, settled, refused by a CHECK.
AllPayloads ==
    { Pay("onchain", "sent", 1, NoTime, TRUE, v1),
      Pay("onchain", "sent", 1, 1, TRUE, v2),
      Pay("onchain", "received", 2, 2, TRUE, v1),
      Pay("onchain", "received", 2, 1, TRUE, v1),
      Pay("onchain", "sent", 1, NoTime, FALSE, v1),
      Pay("onchain", "sent", 0, NoTime, TRUE, v1),
      Pay("onchain", "sent", MaxInteger + 1, NoTime, TRUE, v1),
      Pay("lightning", "sent", 1, NoTime, TRUE, v1),
      Pay("lightning", "sent", 2, NoTime, TRUE, v2),
      Pay("lightning", "sent", 1, NoTime, FALSE, v1) }

\* The payloads of the run with two connections.
RacingPayloads ==
    { Pay("onchain", "sent", 1, 1, TRUE, v1),
      Pay("onchain", "sent", 2, 1, TRUE, v1),
      Pay("lightning", "sent", 1, NoTime, TRUE, v1) }
=============================================================================
