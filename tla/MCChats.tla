------------------------------ MODULE MCChats -------------------------------
EXTENDS Chats

=============================================================================
