------------------------------ MODULE ImageFiles ------------------------------
(***************************************************************************)
(* Photos as the browser knows them (a name that tells the type, and a     *)
(* size) and as the service receives them (the bytes as well).             *)
(***************************************************************************)
EXTENDS Naturals

\* Sizes: none, one that fits, more than 5 MiB.
Sizes == {0, 1, 2}
MAX_IMAGE_SIZE == 1
IMAGE_TYPES == {"image/jpeg", "image/png", "image/webp"}

\* content: the type that the first bytes tell.
UploadedImageFile == [size : Sizes, type : IMAGE_TYPES \cup {"other"}, content : IMAGE_TYPES \cup {"other"}]

detectImageType(file) == IF file.content \in IMAGE_TYPES THEN file.content ELSE "undefined"

\* What validateUploadedImage of the service does not throw on.
validateUploadedImage(file) ==
  /\ file.size # 0 /\ file.size <= MAX_IMAGE_SIZE
  /\ detectImageType(file) # "undefined"
  /\ file.type = detectImageType(file)

\* What the check of the page lets through.
Sendable(file) == file.type \in IMAGE_TYPES /\ file.size <= MAX_IMAGE_SIZE
=============================================================================
