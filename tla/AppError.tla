------------------------------ MODULE AppError ------------------------------
(***************************************************************************)
(* The errors of the resize path and the HTTP status each is answered      *)
(* with.  An error is an anyhow::Error: a message, and sometimes a type    *)
(* that can be recovered from it.  It is reduced to what the classifier    *)
(* can tell of it.                                                         *)
(***************************************************************************)
EXTENDS Naturals

\*   rejected       a typed source_guard::SourceRejected
\*   rejected_text  the message of one, its type lost
\*   unusable       a message with "too large" or "decode"
\*   permit         a message with "permit"
\*   cancelled      a message with "cancelled"
\*   encode         a message with "encode"
\*   upstream       any other message
Errors == {"rejected", "rejected_text", "unusable", "permit", "cancelled",
           "encode", "upstream"}

\* AppError::classify_resize_error followed by AppError::status_code: the type
\* first, then the words of the message.
ClassifyResizeError(e) ==
    CASE e = "rejected"                -> 400
      [] e = "unusable"                -> 400
      [] e \in {"permit", "cancelled"} -> 503
      [] e = "encode"                  -> 500
      [] OTHER                         -> 502

\* AppError::classify_download_error followed by status_code.  "invalid key" is
\* a typed InvalidKeyError; of the other errors only the words count.
ClassifyDownloadError(e) == IF e \in {"invalid key", "not found"} THEN 404 ELSE 502

=============================================================================
