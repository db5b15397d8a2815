--------------------------- MODULE PublicationForm ---------------------------
(***************************************************************************)
(* The wizard of a new listing: four steps, each checked when the member   *)
(* leaves it forwards, and a form that may be changed after going back.    *)
(* The service has rules of its own (ListingRules, the DTO, the validator  *)
(* of uploaded files), which the wizard has to anticipate.                 *)
(***************************************************************************)
EXTENDS Integers, Sequences, SequencesExt, FiniteSets, ImageFiles

CONSTANTS
  Labels,    \* wishes, up to trim and letter case
  Blank,     \* a wish without text
  LongLabel, \* one that has more than 120 characters, whoever counts
  MinImages, MaxImages, MinWishes, MaxWishes,
  Selections \* what the file dialog may return

ASSUME FormAssumption ==
  /\ Blank \notin Labels /\ LongLabel \in Labels
  /\ MinWishes \in Nat \ {0} /\ MaxWishes \in Nat /\ MinWishes <= MaxWishes
  /\ MinImages \in Nat \ {0} /\ MaxImages \in Nat
  /\ Selections \subseteq Seq(UploadedImageFile)

\* The title and the description together, as two sides measure them: too short
\* (0), of a length that fits, too long (2).  The page counts UTF-16 units; the
\* service counts characters, of which there are never more.
Fit == 1
Texts == {text \in [units : 0 .. 2, characters : 0 .. 2] : text.characters <= text.units}

Rules == INSTANCE ListingRules WITH Wishes <- Labels, Undefined <- Blank, Images <- {}

VARIABLES
  step,   \* the step that is shown
  form,   \* value: the fields
  images  \* the files selected

wizardVars == <<step, form, images>>
LastStep == 3   \* Choix, Description, Photos, Vérification

WizardTypeOK ==
  /\ step \in 0 .. LastStep
  /\ form \in [operation : {"TRADE", "DONATION"}, text : Texts,
               wishes : BoundedSeq(Labels \cup {Blank}, MaxWishes)]
  /\ images \in Seq(UploadedImageFile) /\ Len(images) <= MaxImages

createBlankListingInput ==
  [operation |-> "TRADE", text |-> [units |-> 0, characters |-> 0],
   wishes |-> [i \in 1 .. MinWishes |-> Blank]]

WizardInit == step = 0 /\ form = createBlankListingInput /\ images = <<>>

\* slice(0, n)
Cut(seq, n) == SubSeq(seq, 1, Min({Len(seq), n}))

\* Fills up with empty fields, or cuts.
padWishes(wishes) ==
  IF Len(wishes) >= MinWishes THEN Cut(wishes, MaxWishes)
  ELSE wishes \o [i \in 1 .. MinWishes - Len(wishes) |-> Blank]

\* The wishes that are not blank, in their order.
NotBlank(wishes) == {i \in DOMAIN wishes : wishes[i] # Blank}
Filled(wishes) == [n \in 1 .. Cardinality(NotBlank(wishes)) |-> wishes[Rules!Nth(NotBlank(wishes), n)]]

\* What is sent: title and description are trimmed.
normalizedListingInput(f) ==
  [f EXCEPT !.wishes = IF f.operation = "TRADE" THEN Filled(f.wishes) ELSE <<>>]

\* The check before anything is sent, of both forms.
validatePublicationDraft(f, files) ==
  /\ Len(files) \in MinImages .. MaxImages
  /\ \A photo \in ToSet(files) : Sendable(photo)
  /\ f.operation = "TRADE" => Cardinality(ToSet(Filled(f.wishes))) \in MinWishes .. MaxWishes

\* Variant with a bug: the description is checked as long as it is a trade.
ChecksTradesOnly(s, f, files) ==
  CASE s = 1 -> f.operation = "TRADE" =>
                  /\ f.text.units = Fit
                  /\ Len(Filled(f.wishes)) \in MinWishes .. MaxWishes
                  /\ LongLabel \notin ToSet(f.wishes) /\ IsInjective(Filled(f.wishes))
    [] s = 2 -> (\A photo \in ToSet(files) : photo.size # 0) /\ validatePublicationDraft(f, files)
    [] OTHER -> TRUE

validateWizardStep(s, f, files) ==
  CASE s = 1 -> /\ f.text.units = Fit
                /\ f.operation = "TRADE" =>
                     /\ Len(Filled(f.wishes)) \in MinWishes .. MaxWishes
                     /\ LongLabel \notin ToSet(f.wishes) /\ IsInjective(Filled(f.wishes))
    [] s = 2 -> (\A photo \in ToSet(files) : photo.size # 0) /\ validatePublicationDraft(f, files)
    [] OTHER -> TRUE

-----------------------------------------------------------------------------
\* Step 0.  Going back and forth pads the wishes, or throws them away.
ChangeOperation(operation) ==
  /\ step = 0
  /\ form' = [form EXCEPT !.operation = operation,
                          !.wishes = IF operation = "TRADE" THEN padWishes(form.wishes) ELSE <<>>]
  /\ UNCHANGED <<step, images>>

\* Step 1.
ChangeText(text) ==
  /\ step = 1
  /\ form' = [form EXCEPT !.text = text]
  /\ UNCHANGED <<step, images>>

ChangeWish(i, label) ==
  /\ step = 1 /\ i \in DOMAIN form.wishes
  /\ form' = [form EXCEPT !.wishes[i] = label]
  /\ UNCHANGED <<step, images>>

AddWish ==
  /\ step = 1 /\ form.operation = "TRADE" /\ Len(form.wishes) < MaxWishes
  /\ form' = [form EXCEPT !.wishes = Append(@, Blank)]
  /\ UNCHANGED <<step, images>>

RemoveWish(i) ==
  /\ step = 1 /\ Len(form.wishes) > MinWishes /\ i \in DOMAIN form.wishes
  /\ form' = [form EXCEPT !.wishes = RemoveAt(@, i)]
  /\ UNCHANGED <<step, images>>

\* Step 2: what is selected replaces what was.
ChooseImages(files) ==
  /\ step = 2
  /\ images' = Cut(files, MaxImages)
  /\ UNCHANGED <<step, form>>

\* "Continuer".
Advance ==
  /\ step < LastStep /\ validateWizardStep(step, form, images)
  /\ step' = step + 1
  /\ UNCHANGED <<form, images>>

\* "Retour".
Back ==
  /\ step > 0 /\ step' = step - 1
  /\ UNCHANGED <<form, images>>

\* Step 3: a listing that has been made leaves a blank form, remounted at its
\* first step; the save itself is CreateListing of PersonalSpace.
Deposit ==
  /\ step = LastStep /\ validatePublicationDraft(form, images)
  /\ step' = 0 /\ form' = createBlankListingInput /\ images' = <<>>

WizardNext ==
  \/ Advance \/ Back \/ Deposit \/ AddWish
  \/ \E operation \in {"TRADE", "DONATION"} : ChangeOperation(operation)
  \/ \E text \in Texts : ChangeText(text)
  \/ \E i \in 1 .. MaxWishes :
       RemoveWish(i) \/ \E label \in Labels \cup {Blank} : ChangeWish(i, label)
  \/ \E files \in Selections : ChooseImages(files)

-----------------------------------------------------------------------------
\* The rules of the service: CreateListingDto, validateTradeWishes and the
\* validator of uploaded files.
ServiceAccepts(input, files) ==
  /\ input.text.characters = Fit
  /\ LongLabel \notin ToSet(input.wishes) /\ Len(input.wishes) <= MaxWishes
  /\ Rules!WishesAllowed(input.operation, input.wishes)
  /\ Len(files) \in MinImages .. MaxImages /\ \A photo \in ToSet(files) : validateUploadedImage(photo)
=============================================================================
