---------------------------- MODULE UpdatePrompt ----------------------------
(***************************************************************************)
(* What the user is shown of an update: the offer the poll has found, the  *)
(* prompt over the desktop, the Update page of Settings and the result of  *)
(* the last attempt. Installing is one step here; UpdateSystem has it      *)
(* sector by sector.                                                       *)
(***************************************************************************)
EXTENDS Naturals

CONSTANT MaxVersion    \* versions the host hands out

VARIABLES
    issued,   \* the last version the host staged
    staged,   \* the version the package header announces, 0 for none
    offer,    \* update_version of an available update, 0 for none
    prompt,   \* update_prompt_open and update_prompt_dismissed_version
    attempt,  \* update_install_complete and update_install_failed
    page,     \* settings_page: the Update page or another
    settings, \* whether the Settings window can be seen
    turned,   \* history: the versions the user has dismissed since the start
    newest    \* history: the newest version a poll or an attempt has read since

promptVars == <<issued, staged, offer, prompt, attempt, page, settings, turned, newest>>

PromptTypeOK ==
    /\ issued \in 0 .. MaxVersion /\ staged \in 0 .. issued /\ offer \in 0 .. issued
    /\ prompt \in [open : BOOLEAN, dismissed : 0 .. MaxVersion]
    /\ attempt \in {"none", "complete", "failed"}
    /\ page \in {"UPDATE", "other"} /\ settings \in BOOLEAN
    /\ turned \in SUBSET (1 .. MaxVersion) /\ newest \in 0 .. issued

PromptInit ==
    /\ issued = 0 /\ staged = 0 /\ offer = 0
    /\ prompt = [open |-> FALSE, dismissed |-> 0]
    /\ attempt = "none" /\ page = "other" /\ settings = FALSE /\ turned = {}
    /\ newest = 0

(* The machine starts anew, with what the host has staged. *)
Restart ==
    /\ offer' = 0 /\ prompt' = [open |-> FALSE, dismissed |-> 0]
    /\ attempt' = "none" /\ page' = "other" /\ settings' = FALSE /\ turned' = {}
    /\ newest' = 0
    /\ UNCHANGED <<issued, staged>>

(* The host stages its next version over whatever is there. *)
StageNewer ==
    /\ issued < MaxVersion
    /\ issued' = issued + 1 /\ staged' = issued + 1
    /\ UNCHANGED <<offer, prompt, attempt, page, settings, turned, newest>>

(* poll_update_package, at most once a second; a header that cannot be     *)
(* read is no offer.                                                       *)
Polled == {offer, staged, 0}

NewerOf(a, b) == IF a > b THEN a ELSE b

(* A prompt that forgets what was dismissed with the offer it was about. *)
PromptRule_forgets(found) ==
    IF found = 0 THEN [open |-> FALSE, dismissed |-> 0]
    ELSE IF attempt = "none" /\ found # prompt.dismissed /\ ~(settings /\ page = "UPDATE")
         THEN [prompt EXCEPT !.open = TRUE]
         ELSE prompt

(* gui_run_desktop: when the prompt opens and when it closes by itself. *)
PromptRule(found) ==
    IF found = 0 THEN [prompt EXCEPT !.open = FALSE]
    ELSE IF /\ attempt = "none"
            /\ found # prompt.dismissed
            /\ ~(settings /\ page = "UPDATE")
         THEN [prompt EXCEPT !.open = TRUE]
         ELSE prompt

PollPackage ==
    \E found \in Polled :
        /\ offer' = found
        /\ prompt' = PromptRule(found)
        /\ newest' = NewerOf(newest, found)
        /\ UNCHANGED <<issued, staged, attempt, page, settings, turned>>

PromptShown == prompt.open /\ offer # 0

(* handle_update_prompt_click: outside the panel or on Later. *)
Dismiss ==
    /\ PromptShown
    /\ prompt' = [open |-> FALSE, dismissed |-> offer]
    /\ turned' = turned \cup {offer}
    /\ UNCHANGED <<issued, staged, offer, attempt, page, settings, newest>>

(* install_staged_update as its callers see it; clearing the header may    *)
(* fail without notice.                                                    *)
Attempt(ok) ==
    /\ ok => staged # 0
    /\ staged' \in IF ok THEN {0, staged} ELSE {staged}
    /\ offer' = IF ok THEN 0 ELSE offer
    /\ attempt' = IF ok THEN "complete" ELSE "failed"
    /\ newest' = NewerOf(newest, staged)

(* Its button in the panel, which also opens Settings, *)
InstallFromPrompt(ok) ==
    /\ PromptShown /\ Attempt(ok)
    /\ prompt' = [open |-> FALSE, dismissed |-> 0]
    /\ page' = "UPDATE" /\ settings' = TRUE
    /\ UNCHANGED <<issued, turned>>

(* and the one on the Update page. *)
InstallFromSettings(ok) ==
    /\ settings /\ ~PromptShown /\ page = "UPDATE" /\ offer # 0 /\ Attempt(ok)
    /\ UNCHANGED <<issued, prompt, page, settings, turned>>

TurnPage(p) ==
    /\ settings /\ ~PromptShown /\ page' = p
    /\ UNCHANGED <<issued, staged, offer, prompt, attempt, settings, turned, newest>>

(* The Settings window opens and closes, by a click or by a key.           *)
ShowSettings(visible) ==
    /\ settings' = visible
    /\ UNCHANGED <<issued, staged, offer, prompt, attempt, page, turned, newest>>

PromptNext ==
    \/ StageNewer \/ PollPackage \/ Dismiss \/ Restart
    \/ \E ok \in BOOLEAN : InstallFromPrompt(ok) \/ InstallFromSettings(ok)
    \/ \E p \in {"UPDATE", "other"} : TurnPage(p)
    \/ \E visible \in BOOLEAN : ShowSettings(visible)

PromptSpec == PromptInit /\ [][PromptNext]_promptVars

-----------------------------------------------------------------------------
(* "Modal: clicking outside dismisses until a newer staged version         *)
(* appears." (gui.cpp:6823): once something was dismissed and the poll     *)
(* finds a version newer than every one that was found or installed since  *)
(* the start, the prompt is open, unless Settings shows its page.          *)
NewerVersionPrompts ==
    [][ turned # {} /\ offer' > newest
            => prompt'.open \/ (settings /\ page = "UPDATE") ]_promptVars

(* So it is until the first attempt at an installation: although only one  *)
(* dismissed version is remembered, and the offer may vanish for a while   *)
(* or be overtaken with the prompt still open, a version that was never    *)
(* dismissed is prompted and one that was is not prompted again            *)
(* (gui_run_desktop, handle_update_prompt_click, poll_update_package).     *)
NewerPromptsUntilAttempt ==
    [][ /\ offer' > offer /\ attempt = "none" /\ offer' \notin turned
            => prompt'.open \/ (settings /\ page = "UPDATE")
        /\ prompt'.open => offer' \notin turned' ]_promptVars
=============================================================================
