------------------------------- MODULE Comet --------------------------------
(***************************************************************************)
(* The comptroller's parameters: CometConfigs and init_comet_configs       *)
(* (configs/comet.py) and comet_subscribe_callback (compound.py).  They    *)
(* are queried one after the other, each as of the latest block, and kept  *)
(* by the logs of a subscription that begins later.  The node may leave    *)
(* out blocks of the time it is not connected, and deliver old ones again. *)
(* An address is a ctoken and a spelling: the keys are spelled with a      *)
(* checksum, an address decoded from a log is in lower case.               *)
(* The specification is SpecConfigs: a module about the subscription can   *)
(* extend this one and Supervision, which runs the callback.               *)
(***************************************************************************)
EXTENDS Integers, Sequences, SequencesExt

CONSTANTS
    Ctokens,
    Incentives,     \* values of liquidationIncentiveMantissa
    Factors,        \* values of collateralFactorMantissa
    MaxBlocks,      \* bound: the blocks of a behaviour
    MaxLogs         \* bound: the logs of a block

ASSUME CometAssumption ==
    /\ MaxBlocks \in Nat
    /\ MaxLogs \in Nat
    /\ "incentive" \notin Ctokens

checksum(t) == <<t, "checksum">>

\* EVENT_ABI.
Logs ==
    [name : {"NewLiquidationIncentive"}, new : Incentives]
        \cup [name : {"NewCollateralFactor"}, new : Factors, ctoken : Ctokens]

VARIABLES
    blocks,                     \* external: the logs of each block
    incentive,                  \* external: what the comptroller has
    factor,
    unread,                     \* init_comet_configs: what is still to be queried
    listening,                  \* subscribed to the comptroller's logs
    since,                      \* the block before the subscription's first
    delivered,                  \* the last block the subscription has passed
    liq_incentive,              \* CometConfigs
    ctokens_collateral_factor,
    last_update,
    missed                      \* history: parameters with a log never delivered

chain == <<blocks, incentive, factor>>
configs == <<liq_incentive, ctokens_collateral_factor, last_update>>
configs_vars == <<chain, unread, listening, since, delivered, configs, missed>>

\* The parameter that a log is about, and those that logs are.
about(log) == IF log.name = "NewCollateralFactor" THEN log.ctoken ELSE "incentive"

About(logs) == {about(log) : log \in ToSet(logs)}

\* Logs are applied in their order: the last one about a parameter counts.
newest(logs, parameter) ==
    logs[Max({i \in DOMAIN logs : about(logs[i]) = parameter})].new

after(logs, parameter, was) ==
    IF parameter \in About(logs) THEN newest(logs, parameter) ELSE was

Parameters == Ctokens \cup {"incentive"}

-----------------------------------------------------------------------------
InitConfigs ==
    /\ blocks = <<>>
    /\ incentive \in Incentives
    /\ factor \in [Ctokens -> Factors]
    /\ unread = Parameters
    /\ listening = FALSE
    /\ since = 0
    /\ delivered = 0
    /\ liq_incentive = 0
    /\ ctokens_collateral_factor = <<>>
    /\ last_update = 0
    /\ missed = {}

\* The comptroller's owner changes parameters.  What has been queried and is not
\* yet subscribed to is missed.
Block ==
    /\ Len(blocks) < MaxBlocks
    /\ \E logs \in BoundedSeq(Logs, MaxLogs) :
          /\ blocks' = Append(blocks, logs)
          /\ incentive' = after(logs, "incentive", incentive)
          /\ factor' = [t \in Ctokens |-> after(logs, t, factor[t])]
          /\ missed' = IF listening THEN missed ELSE missed \cup (About(logs) \ unread)
    /\ delivered' = IF listening THEN delivered ELSE Len(blocks')
    /\ UNCHANGED <<unread, listening, since, configs>>

init_incentive ==
    /\ "incentive" \in unread
    /\ unread' = unread \ {"incentive"}
    /\ liq_incentive' = incentive
    /\ UNCHANGED <<chain, listening, since, delivered, missed>>
    /\ UNCHANGED <<ctokens_collateral_factor, last_update>>

\* The markets are queried after the incentive, with a pause after each.
init_market(t) ==
    /\ "incentive" \notin unread
    /\ t \in unread
    /\ unread' = unread \ {t}
    /\ ctokens_collateral_factor' =
          [a \in (DOMAIN ctokens_collateral_factor) \cup {checksum(t)} |->
              IF a = checksum(t) THEN factor[t] ELSE ctokens_collateral_factor[a]]
    /\ UNCHANGED <<chain, listening, since, delivered, missed>>
    /\ UNCHANGED <<liq_incentive, last_update>>

subscribe ==
    /\ unread = {}
    /\ ~ listening
    /\ listening' = TRUE
    /\ since' = delivered
    /\ UNCHANGED <<chain, unread, delivered, configs, missed>>

\* eth_abi's decode of an address.
decode(t) == <<t, "lower">>

\* CometConfigs.update for each of the logs; they add keys of their own.
update(logs) ==
    LET written == {decode(t) : t \in Ctokens \cap About(logs)}
    IN  /\ liq_incentive' = after(logs, "incentive", liq_incentive)
        /\ ctokens_collateral_factor' =
              [a \in (DOMAIN ctokens_collateral_factor) \cup written |->
                  IF a \in written THEN newest(logs, a[1])
                  ELSE ctokens_collateral_factor[a]]

apply_any(block_num) == update(blocks[block_num]) /\ last_update' = block_num

\* The body of comet_subscribe_callback: a block before the last one is out of date.
callback(block_num) ==
    IF block_num < last_update THEN UNCHANGED configs
    ELSE update(blocks[block_num]) /\ last_update' = block_num

\* The next block that has logs, or a block the subscription had delivered before.
comet_subscribe_callback ==
    /\ listening
    /\ \E block_num \in since + 1 .. Len(blocks) :
          /\ blocks[block_num] # <<>>
          /\ \A b \in delivered + 1 .. block_num - 1 : blocks[b] = <<>>
          /\ delivered' = IF block_num > delivered THEN block_num ELSE delivered
          /\ callback(block_num)
    /\ UNCHANGED <<chain, unread, listening, since, missed>>

\* The block came while there was no connection.
Lost ==
    /\ listening
    /\ delivered < Len(blocks)
    /\ delivered' = delivered + 1
    /\ missed' = missed \cup About(blocks[delivered'])
    /\ UNCHANGED <<chain, unread, listening, since, configs>>

NextConfigs ==
    \/ Block
    \/ init_incentive
    \/ \E t \in Ctokens : init_market(t)
    \/ subscribe
    \/ comet_subscribe_callback
    \/ Lost

SpecConfigs == InitConfigs /\ [][NextConfigs]_configs_vars

-----------------------------------------------------------------------------
(* Properties *)

caught_up == listening /\ \A b \in delivered + 1 .. Len(blocks) : blocks[b] = <<>>

\* Once the subscription has caught up, the incentive is the comptroller's, whatever
\* old blocks were delivered again: only a log of before the subscription, or of
\* the time without a connection, can be missing.
IncentiveCurrent ==
    caught_up /\ "incentive" \notin missed => liq_incentive = incentive

\* The same for the factors, with the spelling: the comptroller's factor is under
\* the lower-case key of the logs or, if there was no log, under the key of the
\* query.  calculate_health_factor reads the latter (compound.py:581), so a
\* factor that changes is recorded and not used until the bot starts again.
FactorRecorded ==
    caught_up => \A t \in Ctokens \ missed :
        LET key == IF decode(t) \in DOMAIN ctokens_collateral_factor
                   THEN decode(t) ELSE checksum(t)
        IN  ctokens_collateral_factor[key] = factor[t]
=============================================================================
