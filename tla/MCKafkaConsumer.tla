--------------------------- MODULE MCKafkaConsumer ---------------------------
\* Instance of KafkaConsumer for TLC: the constants are given in the .cfg file.
EXTENDS KafkaConsumer
=============================================================================
