------------------------------- MODULE MCSession -------------------------------
EXTENDS Session

\* Two prompts, or a prompt and a SIGTERM: together they are too many for one run.
PromptsOrTerm == nprompts + nterms <= 2
================================================================================
