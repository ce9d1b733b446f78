-------------------------- MODULE MCConversations --------------------------
EXTENDS Conversations
=============================================================================
