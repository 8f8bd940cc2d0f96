------------------------------ MODULE MCParts ------------------------------
(***************************************************************************)
(* Components that share nothing with each other: a behaviour is one of    *)
(* one of them, the others stay as they begin.                             *)
(***************************************************************************)
EXTENDS FeedRunner, ChatApprovals, OrderLifecycle, DailyCaps, MarketBook,
        AsyncLedger, PulsarBroker, JetStream, KafkaGroup

VARIABLE part

partVars == <<part, feedVars, chatVars, lifecycleVars, capsVars, marketVars,
              asyncVars, pulsarVars, jetVars, kafkaVars>>

PartsInit == /\ part \in {"feed", "chat", "lifecycle", "caps", "market",
                           "async", "pulsar", "jet", "kafka"}
             /\ FeedInit /\ ChatInit /\ LifecycleInit /\ CapsInit /\ MarketInit
             /\ AsyncInit /\ PulsarInit /\ JetInit /\ KafkaInit
             /\ part # "feed" => kind = "stream"
             /\ part # "pulsar" => type = "SHARED" /\ log = <<>>
             /\ part # "jet" => keeps = "none"

Others == /\ UNCHANGED part
          /\ part # "feed" => UNCHANGED feedVars
          /\ part # "chat" => UNCHANGED chatVars
          /\ part # "lifecycle" => UNCHANGED lifecycleVars
          /\ part # "caps" => UNCHANGED capsVars
          /\ part # "market" => UNCHANGED marketVars
          /\ part # "async" => UNCHANGED asyncVars
          /\ part # "pulsar" => UNCHANGED pulsarVars
          /\ part # "jet" => UNCHANGED jetVars
          /\ part # "kafka" => UNCHANGED kafkaVars

PartsNext == \/ part = "feed" /\ FeedNext /\ Others
             \/ part = "chat" /\ ChatNext /\ Others
             \/ part = "lifecycle" /\ LifecycleNext /\ Others
             \/ part = "caps" /\ CapsNext /\ Others
             \/ part = "market" /\ MarketNext /\ Others
             \/ part = "async" /\ AsyncNext /\ Others
             \/ part = "pulsar" /\ PulsarNext /\ Others
             \/ part = "jet" /\ JetNext /\ Others
             \/ part = "kafka" /\ KafkaNext /\ Others

PartsSpec == PartsInit /\ [][PartsNext]_partVars /\ FeedFairness
=============================================================================
