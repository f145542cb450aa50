------------------------------ MODULE MCServices ------------------------------
(***************************************************************************)
(* Parts of the program that share no state: the way of a request to the   *)
(* provider, the self-update, the conversation a request carries, the text *)
(* of an answer, the configuration, the models that may answer, and the    *)
(* search for a model.  A behaviour is of one of them, its part; the       *)
(* others stay as they start.                                              *)
(***************************************************************************)
EXTENDS Endpoint, TLC

CONSTANTS Updates, Shipped, Nothing,    \* SelfUpdate
          Wanted, MaxHistory, MaxHooks, \* Conversation
          MaxText,                      \* EncodedText
          MaxChanges, MaxSaid,          \* Startup
          Lengths, MaxLinks, MaxResults, ChainBudget, Timeouts \* SearchChain

VARIABLES
  part,
  disk, tried, update,
  history,
  literal, offered, tools, text, arriving, buffer, shown, markdown, activated,
  flushing, called, refused, step, chunks, torn,
  flag, env, files, last, changes,
  config, server, retry, told, request,
  left, asking, spent, since, timeout, problem, counted, answer

\* 0.5, the same written 0.5.0, two pre-releases of it, and what comes next.
Release(core) == [core |-> core, pre |-> <<>>]
Word(rank) == [number |-> FALSE, rank |-> rank]
First == Release(<<0, 5>>)
Versions ==
  {First, Release(<<0, 5, 0>>), Release(<<0, 5, 1>>),
   [core |-> <<0, 5>>, pre |-> <<Word(1)>>],
   [core |-> <<0, 5>>, pre |-> <<Word(1), [number |-> TRUE, rank |-> 2]>>]}

(* The shipped binary is not one of a release, and a name holds a binary or
   nothing. *)
ASSUME UpdateAssumption ==
  /\ IsFiniteSet(Updates)
  /\ Shipped \notin Updates
  /\ Nothing \notin Updates \cup {Shipped}

\* A user asks for a number of agents.
ASSUME FanOutAssumption == Wanted \in Nat

\* What the configuration is validated for.
ASSUME SearchAssumption ==
  /\ Lengths \subseteq Nat
  /\ MaxLinks \in Nat
  /\ MaxResults \in 1..20
  /\ ChainBudget \in Nat \ {0}
  /\ Timeouts \subseteq Nat \ {0}

U == INSTANCE SelfUpdate
C == INSTANCE Conversation
T == INSTANCE EncodedText WITH pc <- step
S == INSTANCE Startup

\* Models of Zen and of others, with windows of 256, 400 and 1000.
Small == [id |-> "mimo-v2.5-free", prefixed |-> FALSE]
Chosen == {[Small EXCEPT !.prefixed = TRUE],
           [Small EXCEPT !.id = "gpt-5.2"], [Small EXCEPT !.id = "deepseek-r1"]}
Typed == {[Small EXCEPT !.id = ""]}
Fallbacks == {{}, {Small}, {Small, [Small EXCEPT !.id = "deepseek-v4-flash"]}}

\* Of a key for one model, whatever is asked for.
Local == [Small EXCEPT !.id = "llama"]
Policies == {[override |-> FALSE, default |-> Local, allowed |-> {Local}]}

D == INSTANCE ModelChoice
W == INSTANCE SearchChain

endpointVars == vars
updateVars == <<disk, tried, update>>
textVars ==
  <<literal, offered, tools, text, arriving, buffer, shown, markdown, activated,
    flushing, called, refused, step, chunks, torn>>
startupVars == <<flag, env, files, last, changes>>
modelVars == <<config, server, retry, told, request>>
searchVars == <<left, asking, spent, since, timeout, problem, counted, answer>>
allVars ==
  <<part, endpointVars, updateVars, history, textVars, startupVars, modelVars,
    searchVars>>

ServicesInit ==
  /\ part \in {"endpoint", "update", "conversation", "text", "startup", "models",
               "search"}
  /\ Init /\ (part # "endpoint" => policy = "disabled")
  /\ U!Init
  /\ C!Init
  /\ T!Init /\ (part # "text" => literal /\ offered)
  /\ S!StartupInit
  /\ part # "startup" => flag = S!Silence /\ env = S!Silence /\ files = S!NoFiles
  /\ D!Init
  /\ part # "models" => retry = [fallbacks |-> {}, defaults |-> TRUE]
  /\ W!Init
  /\ part # "search" =>
       left = {W!DuckDuckGo, W!Yahoo} /\ \A limit \in Timeouts : timeout <= limit

ServicesNext ==
  /\ UNCHANGED part
  /\ \/ /\ part = "endpoint" /\ Next
        /\ UNCHANGED <<updateVars, history, textVars, startupVars, modelVars,
                       searchVars>>
     \/ /\ part = "update" /\ U!Next
        /\ UNCHANGED <<endpointVars, history, textVars, startupVars, modelVars,
                       searchVars>>
     \/ /\ part = "conversation" /\ C!Next
        /\ UNCHANGED <<endpointVars, updateVars, textVars, startupVars, modelVars,
                       searchVars>>
     \/ /\ part = "text" /\ T!Next
        /\ UNCHANGED <<endpointVars, updateVars, history, startupVars, modelVars,
                       searchVars>>
     \/ /\ part = "startup" /\ S!StartupNext
        /\ UNCHANGED <<endpointVars, updateVars, history, textVars, modelVars,
                       searchVars>>
     \/ /\ part = "models" /\ D!Next
        /\ UNCHANGED <<endpointVars, updateVars, history, textVars, startupVars,
                       searchVars>>
     \/ /\ part = "search" /\ W!Next
        /\ UNCHANGED <<endpointVars, updateVars, history, textVars, startupVars,
                       modelVars>>

ServicesSpec == ServicesInit /\ [][ServicesNext]_allVars

-----------------------------------------------------------------------------
\* A binary that works is left whatever an update goes through.
BinarySurvives == part = "update" => U!BinarySurvives

\* A failed update leaves the binary it found.
FailedUpdateRestores == U!FailedUpdateRestores

\* The request made of a conversation is one its provider takes, and asks for
\* as many agents as the user did.
RequestFaithful == part = "conversation" => C!RequestFaithful

\* Text is shown, and calls run, as the whole text says.
TextFaithful == T!TextFaithful

\* A client is answered by models as good as it was told of.
ServedAsTold == part = "models" => D!ServedAsTold

\* A search ends with results, or with the truth about who has none.
SearchAccounted == part = "search" => W!SearchAccounted

\* What the dashboard applies is in effect after a restart.
AppliedAsMeant == S!AppliedAsMeant

=============================================================================
