--------------------------- MODULE MetricsRegistry ---------------------------
(***************************************************************************)
(* The registry of metrics, src/common/metrics: static state under one     *)
(* mutex, so every method is one action.  Registry objects are numbered in *)
(* the order in which they are made; 0 stands for a null pointer.  A       *)
(* cached family is known by its registry, which owns it.                  *)
(***************************************************************************)
EXTENDS Integers

CONSTANTS
  Name,         \* names of metrics
  MaxRegistries \* bound of the runs: registries made

ASSUME MetricsConstants == MaxRegistries \in Nat

Kind == {"counter", "gauge", "histogram"}

VARIABLES
  registry,     \* registry_
  exposer,      \* exposer_: the registry that it serves
  families,     \* counter_families_, gauge_families_, histogram_families_
  registered,   \* the families that the registry holds
  made          \* history: registries made

metricsVars == <<registry, exposer, families, registered, made>>

NoFamilies == [m \in Kind \X Name |-> 0]

MetricsInit ==
  /\ registry = 0 /\ exposer = 0
  /\ families = NoFamilies
  /\ registered = {}
  /\ made = 0

\* A registry and the HTTP server for it.  When the server cannot be started
\* its constructor throws, and the registry stays.
MakeRegistry ==
  /\ made < MaxRegistries
  /\ made' = made + 1
  /\ registry' = made + 1
  /\ registered' = {}
  /\ exposer' \in {exposer, made + 1}
  /\ UNCHANGED families

\* Initialize that does not look whether there is a registry.
InitializeAgain == MakeRegistry

\* With a registry in place nothing happens, whether or not it is served.
Initialize == registry = 0 /\ MakeRegistry

\* The cached families are not forgotten.
MetricsShutdown ==
  /\ registry # 0
  /\ exposer' = 0 /\ registry' = 0 /\ registered' = {}
  /\ UNCHANGED <<families, made>>

\* AddCounter, AddGauge, AddHistogram of a name that has no family yet.
\* Registering a name that the registry has under another kind throws.
AddFamily(kind, name) ==
  LET m == <<kind, name>>
  IN  /\ registry # 0
      /\ families[m] = 0
      /\ \A k \in Kind \ {kind} : <<k, name>> \notin registered
      /\ families' = [families EXCEPT ![m] = registry]
      /\ registered' = registered \cup {m}
      /\ UNCHANGED <<registry, exposer, made>>

\* The cached family is asked for the metric: nothing changes here.  When its
\* registry is gone, or when there is neither a family nor a registry, the
\* method follows a dead or a null pointer, and the process may end.
AddEndsProcess(kind, name) ==
  /\ families[<<kind, name>>] # registry \/ registry = 0
  /\ families[<<kind, name>>] = 0 => registry = 0
  /\ registry' = 0 /\ exposer' = 0
  /\ families' = NoFamilies
  /\ registered' = {}
  /\ UNCHANGED made

MetricsNext ==
  \/ Initialize
  \/ MetricsShutdown
  \/ \E kind \in Kind, name \in Name : AddFamily(kind, name) \/ AddEndsProcess(kind, name)

MetricsSpec == MetricsInit /\ [][MetricsNext]_metricsVars
----------------------------------------------------------------------------
(* Properties.                                                             *)

\* While an HTTP server runs it serves the registry in place, and every family
\* it shows is the one that the Add methods hand metrics out of: over any order
\* of Initialize, with a server or without, Shutdown and Add.
ServedIsHandedOut ==
  exposer # 0 => exposer = registry /\ \A m \in registered : families[m] = exposer

(* What the header says and the code does not do.                          *)

\* metrics_registry.h: "Creates or retrieves a Counter metric": what is there to
\* be retrieved belongs to the registry in place, also after Shutdown and another
\* Initialize.
RetrievedIsLive ==
  registry # 0 => \A m \in Kind \X Name : families[m] \in {0, registry}
=============================================================================
