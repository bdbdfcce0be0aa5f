------------------------------ MODULE MCStores ------------------------------
(* The key-value store, parties, trades and decaying items, which share no   *)
(* state, checked together: `part' says which of them this behaviour is      *)
(* about, and the others stand still.                                        *)
EXTENDS MCKVStore, Party, Trade, Decay

VARIABLE part

storesVars == <<part, vars, partyVars, tradeVars, decay>>

StoresInit ==
  /\ part \in {"kv", "party", "trade", "decay"}
  /\ Init /\ PartyInit /\ TradeInit /\ DecayInit
  /\ part # "kv" => \A k \in Key : db[k] = Absent
  /\ part # "party" => leaveOnDeath
  /\ part # "trade" => \A i \in Things : place[i] = Floor

StoresNext ==
  /\ part' = part
  /\ \/ part = "kv" /\ Next /\ UNCHANGED <<partyVars, tradeVars, decay>>
     \/ part = "party" /\ PartyNext /\ UNCHANGED <<vars, tradeVars, decay>>
     \/ part = "trade" /\ TradeNext /\ UNCHANGED <<vars, partyVars, decay>>
     \/ part = "decay" /\ DecayNext /\ UNCHANGED <<vars, partyVars, tradeVars>>

StoresSpec == StoresInit /\ [][StoresNext]_storesVars

\* The type invariants of the components.
StoresTypeOK == TypeOK /\ PartyTypeOK /\ TradeTypeOK /\ DecayTypeOK
=============================================================================
