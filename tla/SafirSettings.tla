--------------------------- MODULE SafirSettings ---------------------------
(***************************************************************************)
(* The one configuration row (models.py SafirConfiguration), the settings  *)
(* requests that change it (views.py safir_settings, forms.py              *)
(* SafirConfigurationForm), and the sends that read it twice: when the     *)
(* dashboard accepts the form and when the thread builds its client        *)
(* (core.py effective_configuration).  One action is one SQL statement.    *)
(* Of the columns the key and the bot id are modelled: the only ones with  *)
(* a fallback that decides whether a message can be sent.                  *)
(***************************************************************************)
EXTENDS Naturals

CONSTANTS Keys,       \* API access keys
          NoKey,      \* the empty key
          Bots,       \* bot ids; 0 is none
          Envs,       \* what the environment may provide: [key, bot]
          Posts,      \* settings requests
          Sends,      \* batches sent from the dashboard for real
          MaxFaults   \* how many statements find the database locked

Config == [key : Keys \cup {NoKey}, bot : Bots \cup {0}]

ASSUME KeysAssumption == NoKey \notin Keys
ASSUME BotsAssumption == Bots \subseteq Nat
ASSUME EnvsAssumption == Envs \subseteq Config
ASSUME FaultsAssumption == MaxFaults \in Nat

VARIABLES
    env,        \* settings.py, from the environment; constant
    exists,     \* the row has been created
    row,        \* its key and bot id
    post_pc,    \* position of each settings request
    post_form,  \* what it submitted; then the instance it will save
    left_empty, \* whether its key field was left empty
    send_pc,    \* position of each send
    client,     \* the configuration its client was built with
    newest,     \* history: the key of the last save whose form had one
    raced,      \* history: such a save came between another's read and save
    faults

post_vars == <<post_pc, post_form, left_empty>>
send_vars == <<send_pc, client>>
vars == <<env, exists, row, post_vars, send_vars, newest, raced, faults>>

\* The columns of a row that get_or_create has just made.
Blank == [key |-> NoKey, bot |-> 0]

Init ==
    /\ env \in Envs
    /\ exists = FALSE
    /\ row = Blank
    /\ post_pc = [p \in Posts |-> "idle"]
    /\ post_form = [p \in Posts |-> Blank]
    /\ left_empty = [p \in Posts |-> FALSE]
    /\ send_pc = [s \in Sends |-> "idle"]
    /\ client = [s \in Sends |-> Blank]
    /\ newest = NoKey
    /\ raced = FALSE
    /\ faults = 0

Fault == faults < MaxFaults /\ faults' = faults + 1

PostGoto(p, from, to) ==
    post_pc[p] = from /\ post_pc' = [post_pc EXCEPT ![p] = to]

-----------------------------------------------------------------------------
\* A settings request.

\* SafirConfiguration.load creates a missing row; the form is validated, and
\* its values replace those of the loaded instance, the empty key too.
LoadAndValidate(p) ==
    /\ exists' = TRUE
    /\ \/ /\ PostGoto(p, "idle", "key")
          /\ \E f \in Config :
                /\ post_form' = [post_form EXCEPT ![p] = f]
                /\ left_empty' = [left_empty EXCEPT ![p] = f.key = NoKey]
       \/ /\ PostGoto(p, "idle", "invalid")
          /\ UNCHANGED <<post_form, left_empty>>
    /\ UNCHANGED <<env, row, send_vars, newest, raced, faults>>

\* Mutant: an empty key is not looked up.
KeyAsSubmitted(p) == post_form[p].key

\* Mutant: the instance read is taken for its key.
KeyIsInstance(p) == IF left_empty[p] THEN row ELSE post_form[p].key

\* An empty key is replaced by the one in the database, in a SELECT of its own.
KeyToSave(p) == IF left_empty[p] THEN row.key ELSE post_form[p].key

ReadKey(p) ==
    /\ PostGoto(p, "key", "save")
    /\ post_form' = [post_form EXCEPT ![p].key = KeyToSave(p)]
    /\ UNCHANGED <<env, exists, row, left_empty, send_vars, newest, raced, faults>>

\* instance.save() writes every column.
Save(p) ==
    /\ PostGoto(p, "save", "saved")
    /\ row' = post_form[p]
    /\ newest' = IF left_empty[p] THEN newest ELSE post_form[p].key
    /\ raced' = (raced \/ \E q \in Posts :
                   ~left_empty[p] /\ left_empty[q] /\ post_pc[q] = "save")
    /\ UNCHANGED <<env, exists, post_form, left_empty, send_vars, faults>>

\* "database is locked": the request answers 500.
PostFails(p) ==
    /\ Fault
    /\ post_pc[p] \in {"idle", "key", "save"}
    /\ post_pc' = [post_pc EXCEPT ![p] = "failed"]
    /\ UNCHANGED <<env, exists, row, post_form, left_empty, send_vars, newest, raced>>

-----------------------------------------------------------------------------
\* effective_configuration: the row, and the environment where it is empty.
Effective == [key |-> IF row.key # NoKey THEN row.key ELSE env.key,
              bot |-> IF row.bot # 0 THEN row.bot ELSE env.bot]

\* A read of the configuration: c is the row with its fallbacks, or on a
\* locked database the environment alone, without a word.
Reads(c) ==
    \/ c = Effective /\ exists' = TRUE /\ UNCHANGED faults
    \/ c = env /\ Fault /\ UNCHANGED exists

CanSend(c) == c.key # NoKey /\ c.bot # 0

\* The dashboard reads the configuration and accepts a real send, or refuses.
Accept(s) ==
    /\ send_pc[s] = "idle"
    /\ \E c \in Config :
          /\ Reads(c)
          /\ send_pc' = [send_pc EXCEPT ![s] =
                            IF CanSend(c) THEN "accepted" ELSE "refused"]
    /\ UNCHANGED <<env, row, post_vars, client, newest, raced>>

\* The thread reads it again for its client, whose sends end CONFIG_ERROR when
\* something is missing.  "alone": the read fell back to the environment.
BuildClient(s) ==
    /\ send_pc[s] = "accepted"
    /\ \E c \in Config :
          /\ Reads(c)
          /\ client' = [client EXCEPT ![s] = c]
          /\ send_pc' = [send_pc EXCEPT ![s] =
                            IF faults' = faults THEN "started" ELSE "alone"]
    /\ UNCHANGED <<env, row, post_vars, newest, raced>>

Next ==
    \/ \E p \in Posts : LoadAndValidate(p) \/ ReadKey(p) \/ Save(p) \/ PostFails(p)
    \/ \E s \in Sends : Accept(s) \/ BuildClient(s)

Spec == Init /\ [][Next]_vars

-----------------------------------------------------------------------------
(* Properties.                                                             *)

\* The row, the requests and the sends hold values of their types.
TypeOK ==
    /\ env \in Envs
    /\ exists \in BOOLEAN
    /\ row \in Config
    /\ post_pc \in [Posts -> {"idle", "key", "save", "saved", "invalid", "failed"}]
    /\ post_form \in [Posts -> Config]
    /\ left_empty \in [Posts -> BOOLEAN]
    /\ send_pc \in [Sends -> {"idle", "accepted", "refused", "started", "alone"}]
    /\ client \in [Sends -> Config]
    /\ newest \in Keys \cup {NoKey}
    /\ raced \in BOOLEAN
    /\ faults \in 0..MaxFaults

\* A form with an empty key field leaves the stored key alone (forms.py
\* 426-429), however many are saved and in whatever order: the stored key is
\* the newest one submitted, unless one was saved between another request's
\* read of the old key and its save.
NewestKeyUnlessRaced == row.key = newest \/ raced

\* A real send the dashboard has accepted builds its client with a key and a
\* bot id, whatever was saved in between (a failed row would end CONFIG_ERROR).
\* What can take them away: a locked database ("alone"), the race above for
\* the key, and for the bot id a form that set it to 0.
AcceptedSendCanSend ==
    \A s \in Sends :
        send_pc[s] = "started" =>
            /\ client[s].key # NoKey \/ raced
            /\ client[s].bot # 0 \/ \E p \in Posts :
                  post_pc[p] = "saved" /\ post_form[p].bot = 0
=============================================================================
