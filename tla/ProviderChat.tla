---------------------------- MODULE ProviderChat ----------------------------
(***************************************************************************)
(* The one chat provider (app/providers/base_provider.py) that the planner *)
(* and the reasoning provider share (run_dashboard.py:79-86), and the web  *)
(* page behind it.                                                         *)
(*                                                                         *)
(* The adapter keeps the open page, the last prepared conversation and the *)
(* count of responses seen before the prompt was sent.  The planner asks   *)
(* under its _provider_lock; the reasoning provider asks without a lock.   *)
(* Each step ends where the code awaits.  A page answers one prompt after  *)
(* the other; a response counts when it is complete.                       *)
(***************************************************************************)
EXTENDS Integers, Sequences, FiniteSets

CONSTANTS
    Caller,
    Conv,     \* conversation tabs
    Main,     \* the tab that is open when no conversation was prepared
    Nobody    \* no holder of the lock, no prompt in the composer

VARIABLES
    page,      \* ChatbotProvider.page
    prepared,  \* _conversation_prompt
    before,    \* _response_count_before_submit
    composer,  \* what is typed in each tab
    pending,   \* prompts each tab has yet to answer
    answers,   \* the prompts each tab has answered, in order
    at,        \* where each caller is in its exchange
    tab,       \* the tab a caller is opening, or typing in
    holder     \* who holds AgentPlanningWorkflow._provider_lock

chat == <<page, prepared, before, composer, pending, answers, at, tab, holder>>

Steps == {"idle", "open", "ready", "count", "type", "typed", "wait", "extract"}

ChatTypeOK ==
    /\ page \in Conv /\ prepared \in Conv /\ before \in Nat
    /\ at \in [Caller -> Steps] /\ tab \in [Caller -> Conv]
    /\ holder \in Caller \cup {Nobody}
    /\ holder # Nobody => at[holder] # "idle"
    /\ DOMAIN composer = Conv /\ DOMAIN pending = Conv /\ DOMAIN answers = Conv

ChatInit ==
    /\ page = Main /\ prepared = Main /\ before = 0
    /\ composer = [c \in Conv |-> Nobody]
    /\ pending = [c \in Conv |-> <<>>]
    /\ answers = [c \in Conv |-> <<>>]
    /\ at = [k \in Caller |-> "idle"]
    /\ tab = [k \in Caller |-> Main]
    /\ holder = Nobody

Goes(k, step) == at' = [at EXCEPT ![k] = step]

(* AgentPlanningWorkflow._ask up to its first await: the prompt's own tab. *)
BeginLocked(k, c) ==
    /\ at[k] = "idle" /\ holder = Nobody
    /\ holder' = k
    /\ prepared' = c
    /\ tab' = [tab EXCEPT ![k] = c]
    /\ Goes(k, "open")
    /\ UNCHANGED <<page, before, composer, pending, answers>>

(* ChatbotReasoningProvider.propose: whatever tab was prepared last.       *)
BeginUnlocked(k) ==
    /\ at[k] = "idle"
    /\ tab' = [tab EXCEPT ![k] = prepared]
    /\ Goes(k, "open")
    /\ UNCHANGED <<page, prepared, before, composer, pending, answers, holder>>

Open(k) ==
    /\ at[k] = "open"
    /\ page' = tab[k]
    /\ Goes(k, "ready")
    /\ UNCHANGED <<prepared, before, composer, pending, answers, tab, holder>>

(* verify_page, start_conversation and the composer send_prompt finds.     *)
Field(k) ==
    /\ at[k] = "ready"
    /\ tab' = [tab EXCEPT ![k] = page]
    /\ Goes(k, "count")
    /\ UNCHANGED <<page, prepared, before, composer, pending, answers, holder>>

(* The responses of the page open by then, which need not be that tab.     *)
Count(k) ==
    /\ at[k] = "count"
    /\ before' = Len(answers[page])
    /\ Goes(k, "type")
    /\ UNCHANGED <<page, prepared, composer, pending, answers, tab, holder>>

Fill(k, question) ==
    /\ at[k] = "type"
    /\ composer' = [composer EXCEPT ![tab[k]] = question]
    /\ Goes(k, "typed")
    /\ UNCHANGED <<page, prepared, before, pending, answers, tab, holder>>

(* Enter sends what the composer holds, whoever typed it.                  *)
Press(k) ==
    /\ at[k] = "typed"
    /\ composer' = [composer EXCEPT ![tab[k]] = Nobody]
    /\ pending' = IF composer[tab[k]] = Nobody THEN pending
                  ELSE [pending EXCEPT ![tab[k]] = Append(@, composer[tab[k]])]
    /\ Goes(k, "wait")
    /\ UNCHANGED <<page, prepared, before, answers, tab, holder>>

(* The page answers.                                                       *)
Respond(c) ==
    /\ pending[c] # <<>>
    /\ answers' = [answers EXCEPT ![c] = Append(@, Head(pending[c]))]
    /\ pending' = [pending EXCEPT ![c] = Tail(@)]
    /\ UNCHANGED <<page, prepared, before, composer, at, tab, holder>>

(* wait_for_response and remember_conversation, on the page open by then.  *)
Wait(k) ==
    /\ at[k] = "wait"
    /\ Len(answers[page]) > before /\ pending[page] = <<>>
    /\ Goes(k, "extract")
    /\ UNCHANGED <<page, prepared, before, composer, pending, answers, tab, holder>>

(* Mutant: the lock is taken and released by hand, not by "async with".    *)
LeaveHolding(k) ==
    /\ Goes(k, "idle")
    /\ UNCHANGED <<page, prepared, before, composer, pending, answers, tab, holder>>

Leave(k) ==
    /\ Goes(k, "idle")
    /\ holder' = IF holder = k THEN Nobody ELSE holder
    /\ UNCHANGED <<page, prepared, before, composer, pending, answers, tab>>

(* extract_response: the last response of the page open by then.           *)
Extract(k, question) ==
    /\ at[k] = "extract"
    /\ answers[page] # <<>> /\ question = answers[page][Len(answers[page])]
    /\ Leave(k)

(* A ProviderError - no composer, no response in time, nothing to extract  *)
(* - an error of the browser, or a cancellation.                           *)
ChatFails(k) == at[k] # "idle" /\ Leave(k)
=============================================================================
