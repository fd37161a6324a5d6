----------------------------- MODULE MCRadioLink -----------------------------
EXTENDS RadioLink

MCResetConfig == [channel |-> 11, filter |-> FALSE, cca |-> FALSE, address |-> 0, power |-> 0,
                  pending |-> FALSE, retries |-> 1, txRetries |-> 0]
MCCalls ==
  {[kind |-> "channel", arg |-> 12], [kind |-> "channel", arg |-> 13], [kind |-> "ed", arg |-> 13], [kind |-> "getmac"],
   [kind |-> "promisc", arg |-> FALSE], [kind |-> "address", arg |-> 1],
   [kind |-> "mac", arg |-> [filter |-> TRUE, cca |-> TRUE, retries |-> 1]],
   [kind |-> "power", arg |-> 1], [kind |-> "pending", arg |-> TRUE],
   [kind |-> "pib", arg |-> 0], [kind |-> "stats"],
   [kind |-> "tx", arg |-> TRUE], [kind |-> "tx", arg |-> FALSE],
   [kind |-> "txadv", arg |-> TRUE, retries |-> 1]}
=============================================================================
